---- MODULE Spec2Model ----
(***************************************************************************)
(* Model of src/Script.js: the cellular automaton on a cube-mapped sphere. *)
(*                                                                         *)
(* State: the module-level `let` variables of Script.js (lines 26-50).     *)
(* Actions: one per event handler and one for the frame callback.          *)
(*                                                                         *)
(* Representation of the numbers                                           *)
(*   state / buffer         Uint8Array   functions 0..N-1 -> {0, 1}        *)
(*   ages / ageBuffer       Uint16Array  functions 0..N-1 -> 0..65535; a   *)
(*                          store wraps modulo 2^16 as the typed array does*)
(*   decays / decayBuffer   Float32Array functions 0..N-1 -> 0..DecayOne,  *)
(*                          fixed point: the value d stands for d/DecayOne *)
(*                          and a store rounds to the nearest such value   *)
(*   timestamps             integer milliseconds                           *)
(*   rotationX, rotationY   integer micro-radians                          *)
(*   vectors                integer direction vectors; the unit vector the *)
(*                          code stores is dir / sqrt(dir . dir)           *)
(***************************************************************************)
EXTENDS Integers, Sequences, FiniteSets, TLC

(***************************************************************************)
(* Bounds of the model (not program constants).                            *)
(***************************************************************************)
MaxGeneration == 2
MaxTaps == 2
MaxTime == 200
LongRunSteps == 65540
MaxMoves == 2
PlanarMaxGeneration == 197
MaxTicks == 4

(***************************************************************************)
(* Values the script reads from the page's controls when it starts.        *)
(***************************************************************************)
ResolutionInputValue == 1
SpeedInputValue == 200
ZoomInputValue == 100

\* The id of the pointer of a page used with one pointer.
MainPointer == 1

\* The pointers of the page (event.pointerId): a mouse or first finger, and a
\* second finger.  The handlers never read the id of the pointer they serve.
PointerIds == {MainPointer, 2}

\* A value of the resolution slider for which buildSphere's loops push no cell.
EmptyResolutionValue == 0

\* The values the resolution slider is moved between.
Resolutions == {1, 2}

\* Uint16Array element range.
Uint16Modulus == 65536

\* Fixed-point scale of a decay value: DecayOne stands for 1.0.
DecayOne == 1000000

\* The range updateZoom and handleWheel clamp zoomLevel to (0.7 and 1.25), in
\* units of 1/10000.
ZoomMin == 7000
ZoomMax == 12500

\* Math.PI / 2 - 0.05, the bound of the pitch, in micro-radians.
MaxPitch == 1520796

(***************************************************************************)
(* Vectors.  normalize(vec) divides by Math.hypot(vec); the model keeps    *)
(* the integer direction d and its length n in thousandths (rounded down). *)
(***************************************************************************)
Dot(a, b) == a[1] * b[1] + a[2] * b[2] + a[3] * b[3]

\* The integer square root of n, by bisection of lo..hi (lo^2 <= n < (hi+1)^2).
RECURSIVE ISqrtBetween(_, _, _)
ISqrtBetween(n, lo, hi) ==
  IF lo >= hi THEN lo
  ELSE LET mid == (lo + hi + 1) \div 2
       IN  IF mid * mid <= n THEN ISqrtBetween(n, mid, hi)
           ELSE ISqrtBetween(n, lo, mid - 1)

normalize(vec) == [d |-> vec, n |-> ISqrtBetween(Dot(vec, vec) * 1000000, 0, 40000)]

(***************************************************************************)
(* cubeToSphere(face, u, v), with u = U / fs and v = V / fs: the cube      *)
(* point of the face, scaled by fs so that it stays integral.  normalize   *)
(* keeps the direction; the length is not stored.                          *)
(***************************************************************************)
cubeToSphere(face, U, V, fs) ==
  normalize(CASE face = 0 -> <<fs, V, -U>>
              [] face = 1 -> <<-fs, V, U>>
              [] face = 2 -> <<U, fs, V>>
              [] face = 3 -> <<U, -fs, -V>>
              [] face = 4 -> <<U, V, fs>>
              [] OTHER    -> <<-U, V, -fs>>)

\* offsets of buildSphere, doubled: [-0.5,-0.5], [0.5,-0.5], [0.5,0.5], [-0.5,0.5]
CornerOffsets == << <<-1, -1>>, <<1, -1>>, <<1, 1>>, <<-1, 1>> >>

\* The cell pushed for (face, row, col): u = ((col + 0.5 + dx) / fs) * 2 - 1,
\* so fs * u = 2 * col + 1 + 2 * dx - fs.
MakeCell(face, row, col, fs) ==
  [face    |-> face,
   row     |-> row,
   col     |-> col,
   center  |-> cubeToSphere(face, 2 * col + 1 - fs, 2 * row + 1 - fs, fs),
   corners |-> [c \in 1..4 |->
                  cubeToSphere(face,
                               2 * col + 1 + CornerOffsets[c][1] - fs,
                               2 * row + 1 + CornerOffsets[c][2] - fs,
                               fs)]]

\* Fault model: the loop over the faces stops one face short.
BuildCellsOfFiveFaces(fs) ==
  [i \in 0..(5 * fs * fs - 1) |->
     MakeCell(i \div (fs * fs), (i % (fs * fs)) \div fs, i % fs, fs)]

\* cellsList of buildSphere: face-major, then row, then col; index 0..6*fs*fs-1.
BuildCells(fs) ==
  [i \in 0..(6 * fs * fs - 1) |->
     MakeCell(i \div (fs * fs), (i % (fs * fs)) \div fs, i % fs, fs)]

NumCells(cellList) == Cardinality(DOMAIN cellList)

(***************************************************************************)
(* computeNeighbors / insertNeighbor.  distance = 1 - dot of the unit      *)
(* centres; a candidate is compared by `candidate.distance <               *)
(* list[i].distance`.  With integer directions a, b, c the comparison      *)
(* 1 - a.b/(|a||b|) < 1 - a.c/(|a||c|) is a.b/|b| > a.c/|c|, decided       *)
(* exactly on the squares.                                                 *)
(***************************************************************************)
Sign(n) == IF n > 0 THEN 1 ELSE IF n < 0 THEN -1 ELSE 0

\* p / sqrt(lp) > q / sqrt(lq), for lp, lq > 0
RatioGreater(p, lp, q, lq) ==
  IF Sign(p) # Sign(q) THEN Sign(p) > Sign(q)
  ELSE IF Sign(p) >= 0 THEN p * p * lq > q * q * lp
  ELSE p * p * lq < q * q * lp

DistanceLess(centers, base, j, k) ==
  RatioGreater(Dot(centers[base].d, centers[j].d), Dot(centers[j].d, centers[j].d),
               Dot(centers[base].d, centers[k].d), Dot(centers[k].d, centers[k].d))

\* Fault model: the loop stops at the first entry that is not nearer than the
\* candidate, so that a candidate goes before the entries of equal distance.
RECURSIVE InsertPositionBeforeEqual(_, _, _, _, _)
InsertPositionBeforeEqual(centers, base, list, candidate, i) ==
  IF i > Len(list) THEN i
  ELSE IF ~DistanceLess(centers, base, list[i], candidate) THEN i
  ELSE InsertPositionBeforeEqual(centers, base, list, candidate, i + 1)

\* The position the for-loop of insertNeighbor stops at: the first i with
\* candidate.distance < list[i].distance, or Len(list) + 1 when there is none.
RECURSIVE InsertPosition(_, _, _, _, _)
InsertPosition(centers, base, list, candidate, i) ==
  IF i > Len(list) THEN i
  ELSE IF DistanceLess(centers, base, candidate, list[i]) THEN i
  ELSE InsertPosition(centers, base, list, candidate, i + 1)

\* Fault model: an insertion that never drops the farthest entry.
insertNeighborUntruncated(centers, base, list, candidate) ==
  LET pos == InsertPosition(centers, base, list, candidate, 1)
  IN  SubSeq(list, 1, pos - 1) \o <<candidate>> \o SubSeq(list, pos, Len(list))

insertNeighbor(centers, base, list, candidate) ==
  LET pos == InsertPosition(centers, base, list, candidate, 1)
      grown == SubSeq(list, 1, pos - 1) \o <<candidate>> \o SubSeq(list, pos, Len(list))
  IN  IF Len(grown) > 8 THEN SubSeq(grown, 1, 8) ELSE grown

\* Fault model: the scan without `if (i === j) continue`, so that a cell is a
\* candidate of its own list.
RECURSIVE ScanNeighborsWithSelf(_, _, _, _, _)
ScanNeighborsWithSelf(centers, n, i, j, list) ==
  IF j >= n THEN list
  ELSE ScanNeighborsWithSelf(centers, n, i, j + 1,
                             insertNeighbor(centers, i, list, j))

\* The inner loop of computeNeighbors over j = from .. n-1, skipping j = i.
RECURSIVE ScanNeighbors(_, _, _, _, _)
ScanNeighbors(centers, n, i, j, list) ==
  IF j >= n THEN list
  ELSE IF i = j THEN ScanNeighbors(centers, n, i, j + 1, list)
  ELSE ScanNeighbors(centers, n, i, j + 1, insertNeighbor(centers, i, list, j))

computeNeighbors(cellList) ==
  LET centers == [i \in DOMAIN cellList |-> cellList[i].center]
      n == NumCells(cellList)
  IN  [i \in DOMAIN cellList |-> ScanNeighbors(centers, n, i, 0, <<>>)]

\* What buildSphere computes for each slider value (a constant of the model).
Tessellation ==
  [fs \in Resolutions \cup {EmptyResolutionValue} |->
     LET cellList == BuildCells(fs)
     IN  [cells |-> cellList, neighbors |-> computeNeighbors(cellList)]]

(***************************************************************************)
(* The state of Script.js (lines 26-50), the clock of the page, and        *)
(* history variables that only record what has happened.                   *)
(***************************************************************************)
VARIABLES
  faceSize,
  state, buffer, ages, ageBuffer, decays, decayBuffer,
  arrays,           \* the array object each of the six variables above refers to
  projected,
  running, needsRender, lastTick, lastFrame, generationDelay,
  generation, aliveCount,
  rotationX, rotationY,
  pointerActive, dragging, lastPointer,
  zoomLevel,        \* in units of 1/10000
  canvasSize,       \* <<canvas.width, canvas.height>>
  now,              \* the page's clock: the timestamp of the latest frame
  taps,             \* history: pointer gestures begun so far
  moves,            \* history: pointermove events handled so far
  projectedFaceSize,\* history: the faceSize of the cells `projected` was made of
  ctx,              \* TRUE when canvas.getContext("2d") gave a context (line 2)
  gestures,         \* history: for each pointer, how far its gesture has got
  stepsSinceReset,  \* history: stepSimulation calls since generation was last set to 0
  aliveSteps,       \* history: per cell, consecutive stepSimulation calls it came out alive of
  seedAge,          \* history: per cell, the age it was given when randomizeState or
                    \*          toggleCellAt made it alive (0 when the rule did)
  fadeSteps,        \* history: per cell, stepSimulation calls it came out dead of since
                    \*          (and including) the one it died in; 0 otherwise
  genState,         \* history: state as it was when the current generation began
  genDecay,         \* history: decays as they were when the current generation began
  \* The planar grid demo (src/unnamed/part_000), a page of its own.
  stateRef,         \* stateRef.current: the age of each cell (Uint8Array), <<>> for null
  nextStateRef,     \* nextStateRef.current
  configRef,        \* configRef.current: cols and rows of the grid
  generationRef,    \* generationRef.current
  ruleRef,          \* the key of the rule ruleRef.current was made of
  runningRef,       \* runningRef.current
  speedRef,         \* speedRef.current, in hundredths
  accumulator,      \* in tenths of a millisecond
  ticks,            \* history: calls of the ticker so far
  pausedAtLastTick  \* history: the latest call of the ticker found the demo paused

simVars == <<state, buffer, ages, ageBuffer, decays, decayBuffer, arrays>>
gridVars == <<faceSize>>

\* cells and neighbors are assigned by buildSphere only (lines 184, 191-193),
\* together with faceSize (line 149), from which they are computed.
cells == Tessellation[faceSize].cells
neighbors == Tessellation[faceSize].neighbors
cameraVars == <<rotationX, rotationY>>
pointerVars == <<pointerActive, dragging>>
historyVars == <<stepsSinceReset, aliveSteps, seedAge, fadeSteps, genState, genDecay>>
viewVars == <<zoomLevel, canvasSize>>
gestureVars == <<lastPointer, moves>>
pickVars == <<projectedFaceSize>>
contextVars == <<ctx>>
touchVars == <<gestures>>
pageVars == <<gridVars, simVars, projected, running, needsRender, lastTick, lastFrame,
              generationDelay, generation, aliveCount, cameraVars, pointerVars, now,
              taps, historyVars, viewVars, gestureVars, pickVars, contextVars>>
planarVars == <<stateRef, nextStateRef, configRef, generationRef, ruleRef, runningRef,
                speedRef, accumulator, ticks, pausedAtLastTick>>
vars == <<pageVars, touchVars, planarVars>>

Indices == DOMAIN state
Length == Cardinality(DOMAIN state)

(***************************************************************************)
(* Math.random().  randomizeState draws, per cell, whether it is alive     *)
(* (Math.random() < 0.32), an age Math.floor(Math.random() * 4) + 1 for an *)
(* alive cell and a decay Math.random() * 0.2 for a dead one.  The model   *)
(* takes the outcome of all the draws of one call from RandomDraws.  The   *)
(* product Math.random() * 0.2 is a double below 0.2; a draw carries it in *)
(* units of 1/DecayGrain of the unit the decay arrays store.               *)
(***************************************************************************)
\* The number of values of the product between two neighbouring values that a
\* decay array can hold.
DecayGrain == 1000

RandomDraw(n, S, age, decay) ==
  [i \in 0..(n - 1) |-> [alive |-> i \in S, age |-> age, decay |-> decay]]

RandomDraws(n) ==
  {RandomDraw(n, {}, 1, 0),
   RandomDraw(n, {0}, 4, 199999000),
   RandomDraw(n, {0, 1, 2}, 2, 199999999),
   RandomDraw(n, {0, 1, 2, 3}, 4, 0)}

\* The store of a double into a Float32Array element (line 255): the nearest
\* value the array can hold, which may lie above the double.
StoredDecay(product) == (2 * product + DecayGrain) \div (2 * DecayGrain)

Zeros(n) == [i \in 0..(n - 1) |-> 0]

CountAlive(cur) == Cardinality({i \in DOMAIN cur : cur[i] = 1})

(***************************************************************************)
(* randomizeState (lines 243-260), as the values it leaves.                *)
(***************************************************************************)
RandomizedState(draw) == [i \in DOMAIN draw |-> IF draw[i].alive THEN 1 ELSE 0]
\* Fault model: an age drawn from 2..5, one more than line 249 gives.
RandomizedAgesOneMore(draw) ==
  [i \in DOMAIN draw |-> IF draw[i].alive THEN draw[i].age + 1 ELSE 0]

RandomizedAges(draw) == [i \in DOMAIN draw |-> IF draw[i].alive THEN draw[i].age ELSE 0]
RandomizedDecays(draw) ==
  [i \in DOMAIN draw |-> IF draw[i].alive THEN 0 ELSE StoredDecay(draw[i].decay)]

(***************************************************************************)
(* clamp (lines 113-115) and resizeCanvas (lines 117-146).                 *)
(***************************************************************************)
Min(a, b) == IF a < b THEN a ELSE b
Max(a, b) == IF a > b THEN a ELSE b

clamp(value, min, max) == Min(max, Max(min, value))

\* What getBoundingClientRect returns for the canvas and for its parent, as
\* <<width, height>> in pixels, with a device pixel ratio of 1.
Layouts ==
  { [rect |-> <<640, 480>>, parentRect |-> <<640, 480>>],
    [rect |-> <<300, 150>>, parentRect |-> <<640, 480>>],
    [rect |-> <<0, 0>>,     parentRect |-> <<300, 150>>],
    [rect |-> <<0, 0>>,     parentRect |-> <<0, 0>>] }

\* The canvas element's size before any script has set it.
DefaultCanvasSize == <<300, 150>>

\* The layout of the page when it loads.
StartLayout == [rect |-> <<640, 480>>, parentRect |-> <<640, 480>>]

\* Lines 120-135: the rectangle resizeCanvas measures, <<0, 0>> when it gives up
\* (and, with a parent, asks for another call on the next frame).
MeasuredRect(layout) ==
  IF layout.rect[1] = 0 \/ layout.rect[2] = 0
  THEN IF layout.parentRect[1] > 0 /\ layout.parentRect[2] > 0
       THEN layout.parentRect
       ELSE <<0, 0>>
  ELSE layout.rect

\* Lines 138-139.
TargetSize(rect) == <<Max(1, rect[1]), Max(1, rect[2])>>

\* Lines 141-145: the canvas size resizeCanvas leaves.
ResizedCanvas(size, layout) ==
  IF MeasuredRect(layout) = <<0, 0>> THEN size ELSE TargetSize(MeasuredRect(layout))

(***************************************************************************)
(* Start-up (lines 740-746): setupControls, resizeCanvas, buildSphere,     *)
(* updateSpeed, updateZoom, randomizeState, and the first frame requested. *)
(***************************************************************************)
\* The planar grid demo before its component is mounted: the refs and state
\* hooks as part_000 lines 266-296 create them.
PlanarUnmounted ==
  /\ stateRef = <<>>
  /\ nextStateRef = <<>>
  /\ configRef = [cols |-> 0, rows |-> 0]
  /\ generationRef = 0
  /\ ruleRef = "classic"
  /\ runningRef = TRUE
  /\ speedRef = 58
  /\ accumulator = 0
  /\ ticks = 0
  /\ pausedAtLastTick = FALSE

\* The six variables in the order lines 27-32 declare them.
Roles == <<"state", "buffer", "ages", "ageBuffer", "decays", "decayBuffer">>

\* Array objects are named by numbers that mean nothing but `the same object`
\* or `another one`: the objects are numbered in the order in which the six
\* variables, in the order of Roles, hold them.
FirstHolder(refs, k) ==
  CHOOSE j \in 1..k : /\ refs[Roles[j]] = refs[Roles[k]]
                      /\ \A h \in 1..(j - 1) : refs[Roles[h]] # refs[Roles[k]]

Numbered(refs) ==
  [name \in DOMAIN refs |->
     LET k == CHOOSE h \in 1..Len(Roles) : Roles[h] = name
     IN  Cardinality({refs[Roles[j]] : j \in 1..FirstHolder(refs, k)})]

\* Lines 185-190 (and 27-32): six arrays are allocated, each variable its own.
AllocatedArrays ==
  [state |-> 1, buffer |-> 2, ages |-> 3, ageBuffer |-> 4, decays |-> 5,
   decayBuffer |-> 6]

StartUp(resolution, context) ==
  \E draw \in RandomDraws(6 * resolution * resolution) :
    /\ faceSize = resolution
    /\ ctx = context
    /\ gestures = [id \in PointerIds |-> "idle"]
    /\ state = RandomizedState(draw)
    /\ buffer = Zeros(NumCells(draw))
    /\ ages = RandomizedAges(draw)
    /\ ageBuffer = Zeros(NumCells(draw))
    /\ decays = RandomizedDecays(draw)
    /\ decayBuffer = Zeros(NumCells(draw))
    /\ arrays = AllocatedArrays
    /\ projected = <<>>
    /\ running = FALSE
    /\ needsRender = TRUE
    /\ lastTick = 0
    /\ lastFrame = 0
    /\ generationDelay = SpeedInputValue
    /\ generation = 0
    /\ aliveCount = CountAlive(state)
    /\ rotationX = 350000
    /\ rotationY = 200000
    /\ pointerActive = FALSE
    /\ dragging = FALSE
    /\ lastPointer = <<0, 0>>
    /\ zoomLevel = clamp(ZoomInputValue * 100, ZoomMin, ZoomMax)
    /\ canvasSize = ResizedCanvas(DefaultCanvasSize, StartLayout)
    /\ now = 0
    /\ taps = 0
    /\ moves = 0
    /\ projectedFaceSize = 0
    /\ stepsSinceReset = 0
    /\ aliveSteps = Zeros(NumCells(draw))
    /\ seedAge = RandomizedAges(draw)
    /\ fadeSteps = Zeros(NumCells(draw))
    /\ genState = state
    /\ genDecay = decays

Init == StartUp(ResolutionInputValue, TRUE) /\ PlanarUnmounted

\* The page with no tessellation: the arrays are as lines 26-34 declare them,
\* of length 0, with or without a 2D context.
InitEmpty ==
  /\ \E context \in BOOLEAN : StartUp(EmptyResolutionValue, context)
  /\ PlanarUnmounted

(***************************************************************************)
(* stepSimulation (lines 275-329).                                         *)
(***************************************************************************)
\* Fault model: an update in place, where a neighbour already computed in this
\* pass is read from the array being written.
InPlaceNeighborValue(cur, buf, i, j) == IF j < i THEN buf[j] ELSE cur[j]

\* Line 286: the value the first loop reads for neighbour j while it computes
\* cell i; cur is `state`, buf is `buffer` as written so far.
NeighborValue(cur, buf, i, j) == cur[j]

\* Lines 283-287: count += state[neighborList[k]] for k = 0 .. length-1.
RECURSIVE NeighborCount(_, _, _, _, _)
NeighborCount(cur, buf, i, list, k) ==
  IF k > Len(list) THEN 0
  ELSE NeighborValue(cur, buf, i, list[k]) + NeighborCount(cur, buf, i, list, k + 1)

\* Fault model: a rule under which a dead cell with no alive neighbour is born.
WillLiveSpontaneously(alive, count) ==
  IF alive = 1 THEN (IF count = 2 \/ count = 3 THEN 1 ELSE 0)
  ELSE IF count = 3 \/ count = 0 THEN 1 ELSE 0

\* Line 289.
WillLive(alive, count) ==
  IF alive = 1 THEN (IF count = 2 \/ count = 3 THEN 1 ELSE 0)
  ELSE IF count = 3 THEN 1 ELSE 0

\* Lines 280-294: the first loop, cell by cell, writing buffer[i].
RECURSIVE LivenessLoop(_, _, _, _)
LivenessLoop(cur, buf, nbrs, i) ==
  IF i \notin DOMAIN cur THEN buf
  ELSE LivenessLoop(cur,
                    [buf EXCEPT ![i] = WillLive(cur[i], NeighborCount(cur, buf, i, nbrs[i], 1))],
                    nbrs, i + 1)

\* Fault model: a survivor whose age is carried over without the increment.
AgeCarriedOver(willLive, wasAlive, age) ==
  IF willLive = 1 THEN (IF wasAlive = 1 THEN age ELSE 1) ELSE 0

\* Line 298 and 301: the value stored into the Uint16Array ageBuffer.
AgeAfter(willLive, wasAlive, age) ==
  IF willLive = 1 THEN (IF wasAlive = 1 THEN (age + 1) % Uint16Modulus ELSE 1)
  ELSE 0

\* Fault models of the fade: another factor, and a quotient for the product.
HalvedDecay(decay) == decay \div 2
DividedDecay(decay) == (10 * decay) \div 6

\* Line 305: decays[i] * 0.6 stored into the Float32Array, rounded to nearest.
FadeDecay(decay) == (6 * decay + 5) \div 10

\* Fault model: a cell that dies gets no afterglow, its old decay just fades.
DecayWithoutAfterglow(willLive, wasAlive, decay) ==
  IF willLive = 1 THEN 0 ELSE FadeDecay(decay)

\* Lines 299 and 302-306.
DecayAfter(willLive, wasAlive, decay) ==
  IF willLive = 1 THEN 0
  ELSE IF wasAlive = 1 THEN DecayOne
  ELSE FadeDecay(decay)

\* Fault model: a step that leaves the generation counter alone.
SameGeneration(g) == g

\* Fault model: a step that counts the generations down.
PreviousGeneration(g) == g - 1

\* Lines 310-312, with advanceGeneration = true as every caller passes it.
AdvancedGeneration(g) == g + 1

\* Fault model: the exchange written without the temporaries, `state = buffer;
\* buffer = state`, which leaves both variables on one array.
SwappedWithoutTemp(refs) ==
  [state |-> refs.buffer, buffer |-> refs.buffer,
   ages |-> refs.ageBuffer, ageBuffer |-> refs.ageBuffer,
   decays |-> refs.decayBuffer, decayBuffer |-> refs.decayBuffer]

\* Lines 314-324: the three exchanges through temp, tempAge and tempDecay.
Swapped(refs) ==
  [state |-> refs.buffer, buffer |-> refs.state,
   ages |-> refs.ageBuffer, ageBuffer |-> refs.ages,
   decays |-> refs.decayBuffer, decayBuffer |-> refs.decays]

\* Fault model: a step without the `if (!state.length) return` of line 276.
StepUpdatesWithoutLengthCheck ==
  /\ state' = LivenessLoop(state, buffer, neighbors, 0)
  /\ buffer' = state
  /\ ages' = [i \in Indices |-> AgeAfter(state'[i], state[i], ages[i])]
  /\ ageBuffer' = ages
  /\ decays' = [i \in Indices |-> DecayAfter(state'[i], state[i], decays[i])]
  /\ decayBuffer' = decays
  /\ arrays' = Numbered(Swapped(arrays))
  /\ generation' = AdvancedGeneration(generation)
  /\ aliveCount' = CountAlive(state')
  /\ stepsSinceReset' = stepsSinceReset + 1
  /\ aliveSteps' = [i \in Indices |->
                      IF state'[i] = 1 THEN aliveSteps[i] + 1 ELSE 0]
  /\ seedAge' = [i \in Indices |->
                   IF state'[i] = 1 /\ state[i] = 1 THEN seedAge[i] ELSE 0]
  /\ fadeSteps' = [i \in Indices |->
                     IF state'[i] = 1 THEN 0
                     ELSE IF state[i] = 1 THEN 1
                     ELSE IF fadeSteps[i] > 0 THEN fadeSteps[i] + 1 ELSE 0]
  /\ genState' = state'
  /\ genDecay' = decays'

\* stepSimulation(true) without its last lines `needsRender = true; updateHUD()`.
\* Lines 314-324 swap each array with its buffer: after the call `state` is the
\* array the loops wrote and `buffer` is the array they read.
StepUpdates ==
  IF Length = 0
  THEN UNCHANGED <<simVars, generation, aliveCount, historyVars>>
  ELSE /\ state' = LivenessLoop(state, buffer, neighbors, 0)
       /\ buffer' = state
       /\ ages' = [i \in Indices |-> AgeAfter(state'[i], state[i], ages[i])]
       /\ ageBuffer' = ages
       /\ decays' = [i \in Indices |-> DecayAfter(state'[i], state[i], decays[i])]
       /\ decayBuffer' = decays
       /\ arrays' = Numbered(Swapped(arrays))
       /\ generation' = AdvancedGeneration(generation)
       /\ aliveCount' = CountAlive(state')
       /\ stepsSinceReset' = stepsSinceReset + 1
       /\ aliveSteps' = [i \in Indices |->
                           IF state'[i] = 1 THEN aliveSteps[i] + 1 ELSE 0]
       /\ seedAge' = [i \in Indices |->
                        IF state'[i] = 1 /\ state[i] = 1 THEN seedAge[i] ELSE 0]
       /\ fadeSteps' = [i \in Indices |->
                          IF state'[i] = 1 THEN 0
                          ELSE IF state[i] = 1 THEN 1
                          ELSE IF fadeSteps[i] > 0 THEN fadeSteps[i] + 1 ELSE 0]
       /\ genState' = state'
       /\ genDecay' = decays'

stepSimulation ==
  /\ StepUpdates
  /\ needsRender' = IF Length = 0 THEN needsRender ELSE TRUE

(***************************************************************************)
(* render (lines 331-447): the pick list `projected`.  The drawing itself  *)
(* leaves no state.  Angles are micro-radians; Math.sin and Math.cos are   *)
(* approximated in thousandths (Bhaskara's formula on milli-radians).      *)
(***************************************************************************)
SinHalfTurn(x) ==
  (16 * x * (3142 - x)) \div ((49360820 - 4 * x * (3142 - x)) \div 1000)

Sin1000(a) ==
  LET x == (a % 6283185) \div 1000
  IN  IF x <= 3142 THEN SinHalfTurn(x) ELSE 0 - SinHalfTurn(x - 3142)

Cos1000(a) == Sin1000(a + 1570796)

\* The third component of rotateVector (lines 99-111) applied to the unit
\* vector v, in units of 10^-5.
RotatedZ(v, rx, ry) ==
  LET z1 == v.d[1] * Sin1000(ry) + v.d[3] * Cos1000(ry)
      z2 == v.d[2] * Sin1000(rx) * 1000 + z1 * Cos1000(rx)
  IN  ((z2 \div 10) * 1000) \div v.n

\* Lines 357-422: the record pushed for cell i; depth is depthSum (four times
\* the mean depth of the corners).
RenderRecord(cellList, i, rx, ry) ==
  [index |-> i,
   depth |-> RotatedZ(cellList[i].corners[1], rx, ry)
             + RotatedZ(cellList[i].corners[2], rx, ry)
             + RotatedZ(cellList[i].corners[3], rx, ry)
             + RotatedZ(cellList[i].corners[4], rx, ry),
   interactive |-> RotatedZ(cellList[i].center, rx, ry) >= 0]

\* Fault model: the records left in the order of the cells, unsorted.
InsertAtEnd(sorted, rec, k) == Append(sorted, rec)

\* Line 424: data.sort((a, b) => a.depth - b.depth), a stable sort; rec is
\* inserted behind every record that is not deeper than it.
RECURSIVE InsertByDepth(_, _, _)
InsertByDepth(sorted, rec, k) ==
  IF k > Len(sorted) \/ rec.depth < sorted[k].depth
  THEN SubSeq(sorted, 1, k - 1) \o <<rec>> \o SubSeq(sorted, k, Len(sorted))
  ELSE InsertByDepth(sorted, rec, k + 1)

RECURSIVE SortedData(_, _, _, _)
SortedData(cellList, i, rx, ry) ==
  IF i \notin DOMAIN cellList THEN <<>>
  ELSE InsertByDepth(SortedData(cellList, i - 1, rx, ry),
                     RenderRecord(cellList, i, rx, ry), 1)

\* Fault model: the whole draw list kept as the pick list.
RenderUnfiltered(cellList, rx, ry) ==
  SortedData(cellList, NumCells(cellList) - 1, rx, ry)

\* Line 425: projected = data.filter((item) => item.interactive).
Render(cellList, rx, ry) ==
  SelectSeq(SortedData(cellList, NumCells(cellList) - 1, rx, ry),
            LAMBDA rec : rec.interactive)

(***************************************************************************)
(* Typed arrays: a read outside the array is undefined (falsy) and a       *)
(* write outside it is ignored.                                            *)
(***************************************************************************)
Truthy(arr, i) == i \in DOMAIN arr /\ arr[i] # 0
Store(arr, i, v) == IF i \in DOMAIN arr THEN [arr EXCEPT ![i] = v] ELSE arr

(***************************************************************************)
(* toggleCellAt (lines 525-553).  hits is the set of positions of          *)
(* `projected` whose path contains the point (ctx.isPointInPath).          *)
(***************************************************************************)
\* Fault model: the search run from the bottom of the list, so that the record
\* painted first wins.
LowestHit(hits, i) ==
  IF hits = {} THEN 0 ELSE CHOOSE h \in hits : \A g \in hits : h <= g

\* Lines 534-536: the first position from the end of the list that is hit, 0
\* when the loop ends without a hit.
RECURSIVE FirstHit(_, _)
FirstHit(hits, i) ==
  IF i < 1 THEN 0 ELSE IF i \in hits THEN i ELSE FirstHit(hits, i - 1)

\* Line 537: state[region.index] = state[region.index] ? 0 : 1
Toggled(arr, index) == Store(arr, index, IF Truthy(arr, index) THEN 0 ELSE 1)

\* Fault model: a revived cell left with the age of a dead one.
ToggledAgeUnset(nowAlive) == 0

\* Lines 539 and 543.
ToggledAge(nowAlive) == IF nowAlive THEN 1 ELSE 0

\* Lines 540 and 544.
ToggledDecay(nowAlive) == IF nowAlive THEN 0 ELSE DecayOne

\* Lines 541 and 545.
ToggledCount(nowAlive, count) ==
  IF nowAlive THEN count + 1 ELSE IF count - 1 > 0 THEN count - 1 ELSE 0

\* Lines 537-548 for the pick record at position hit; line 538 reads the
\* element back after the store.
ToggleRegion(hit) ==
  /\ state' = Toggled(state, projected[hit].index)
  /\ ages' = Store(ages, projected[hit].index,
                   ToggledAge(Truthy(state', projected[hit].index)))
  /\ decays' = Store(decays, projected[hit].index,
                     ToggledDecay(Truthy(state', projected[hit].index)))
  /\ aliveCount' = ToggledCount(Truthy(state', projected[hit].index), aliveCount)
  /\ generation' = IF generation > 0 THEN generation ELSE 0
  /\ needsRender' = TRUE
  /\ aliveSteps' = Store(aliveSteps, projected[hit].index, 0)
  /\ seedAge' = Store(seedAge, projected[hit].index,
                      IF Truthy(state', projected[hit].index) THEN 1 ELSE 0)
  /\ fadeSteps' = Store(fadeSteps, projected[hit].index, 0)

toggleCellAt(hits) ==
  IF Len(projected) = 0 \/ FirstHit(hits, Len(projected)) = 0
  THEN UNCHANGED <<state, ages, decays, aliveCount, generation, needsRender,
                   aliveSteps, seedAge, fadeSteps>>
  ELSE ToggleRegion(FirstHit(hits, Len(projected)))

\* The sets of pick-list positions one point can lie in: at most two paths.
HitSets == {h \in SUBSET (1..Len(projected)) : Cardinality(h) <= 2}

(***************************************************************************)
(* Pointer handlers (lines 598-636, 681-687).                              *)
(***************************************************************************)
\* The point every press is at, in client pixels.
PressPoint == <<100, 100>>

\* Lines 598-603.
PointerPressed ==
  /\ taps < MaxTaps
  /\ taps' = taps + 1
  /\ pointerActive' = TRUE
  /\ dragging' = FALSE
  /\ lastPointer' = PressPoint
  /\ UNCHANGED <<gridVars, simVars, projected, running, needsRender, lastTick,
                 lastFrame, generationDelay, generation, aliveCount, cameraVars,
                 now, historyVars, viewVars, moves, pickVars, contextVars>>

handlePointerDownOf(id) ==
  /\ PointerPressed
  /\ gestures' = [gestures EXCEPT ![id] = "pressed"]
  /\ UNCHANGED planarVars

handlePointerDown == handlePointerDownOf(MainPointer)

\* Lines 625-636 for a release at a point that lies in the paths `hits`.
handlePointerUpAt(hits) ==
  /\ pointerActive
  /\ pointerActive' = FALSE
  /\ IF ~dragging
     THEN toggleCellAt(hits)
     ELSE UNCHANGED <<state, ages, decays, aliveCount, generation,
                      needsRender, aliveSteps, seedAge, fadeSteps>>
  /\ dragging' = FALSE
  /\ UNCHANGED <<gridVars, buffer, ageBuffer, decayBuffer, arrays, projected, running,
                 lastTick, lastFrame, generationDelay, cameraVars, now, taps,
                 stepsSinceReset, genState, genDecay, viewVars, gestureVars,
                 pickVars, contextVars>>

handlePointerUpOf(id) ==
  /\ IF ~pointerActive
     THEN UNCHANGED pageVars
     ELSE \E hits \in HitSets : handlePointerUpAt(hits)
  /\ gestures' = [gestures EXCEPT ![id] = "idle"]
  /\ UNCHANGED planarVars

handlePointerUp == handlePointerUpOf(MainPointer)

\* Lines 684-687: the pointerleave listener.
handlePointerLeaveOf(id) ==
  /\ pointerActive' = FALSE
  /\ dragging' = FALSE
  /\ gestures' = [gestures EXCEPT ![id] = "idle"]
  /\ UNCHANGED planarVars
  /\ UNCHANGED <<gridVars, simVars, projected, running, needsRender, lastTick,
                 lastFrame, generationDelay, generation, aliveCount, cameraVars,
                 now, taps, historyVars, viewVars, gestureVars, pickVars, contextVars>>

handlePointerLeave == handlePointerLeaveOf(MainPointer)

(***************************************************************************)
(* handlePointerMove (lines 605-623).                                      *)
(***************************************************************************)
\* The points a pointermove event reports, in client pixels.
MovePoints == {<<102, 100>>, <<104, 100>>, <<100, 700>>}

\* Line 611: Math.hypot(dx, dy) > 3, on whole pixels.
FartherThanThreshold(dx, dy) == dx * dx + dy * dy > 9

\* Lines 616-617: dx * 0.006 and dy * 0.006 radians, in micro-radians.
DragRotation(d) == d * 6000

\* Fault model: the pitch follows the pointer without a limit.
UnclampedPitch(rx) == rx

\* Line 618.
ClampedPitch(rx) == clamp(rx, -MaxPitch, MaxPitch)

handlePointerMoveTo(point) ==
  /\ pointerActive
  /\ dragging' = (dragging \/ FartherThanThreshold(point[1] - lastPointer[1],
                                                   point[2] - lastPointer[2]))
  /\ IF dragging'
     THEN /\ rotationY' = rotationY + DragRotation(point[1] - lastPointer[1])
          /\ rotationX' = ClampedPitch(rotationX
                                        + DragRotation(point[2] - lastPointer[2]))
          /\ needsRender' = TRUE
     ELSE UNCHANGED <<rotationX, rotationY, needsRender>>
  /\ lastPointer' = point
  /\ UNCHANGED <<gridVars, simVars, projected, running, lastTick, lastFrame,
                 generationDelay, generation, aliveCount, pointerActive, now, taps,
                 historyVars, viewVars, pickVars, contextVars>>

\* A move of pointer `id`; its gesture has become a drag when the handler
\* rotated the camera for a move of a pointer that was pressed.
handlePointerMoveOf(id) ==
  /\ moves < MaxMoves
  /\ moves' = moves + 1
  /\ IF ~pointerActive
     THEN UNCHANGED <<gridVars, simVars, projected, running, needsRender, lastTick,
                      lastFrame, generationDelay, generation, aliveCount,
                      cameraVars, pointerVars, lastPointer, now, taps, historyVars,
                      viewVars, pickVars, contextVars>>
     ELSE \E point \in MovePoints : handlePointerMoveTo(point)
  /\ gestures' = IF dragging' /\ gestures[id] = "pressed"
                 THEN [gestures EXCEPT ![id] = "dragging"]
                 ELSE gestures
  /\ UNCHANGED planarVars

handlePointerMove == handlePointerMoveOf(MainPointer)

(***************************************************************************)
(* The wheel and the zoom slider (lines 585-596, 638-651, 676-679), the    *)
(* speed slider (lines 580-583, 671) and the window's resize (lines        *)
(* 725-738).                                                               *)
(***************************************************************************)
\* event.deltaY of a wheel event.
WheelDeltas == {-500, 500}

\* Line 641: delta * 0.0007, in units of 1/10000.
WheelZoom(delta) == delta * 7

\* Fault model: a wheel that does not zoom while a pointer gesture is going on.
handleWheelWhenIdle ==
  \E delta \in WheelDeltas :
    /\ zoomLevel' = IF pointerActive
                    THEN zoomLevel
                    ELSE clamp(zoomLevel - WheelZoom(delta), ZoomMin, ZoomMax)
    /\ needsRender' = TRUE
    /\ UNCHANGED <<gridVars, simVars, projected, running, lastTick, lastFrame,
                   generationDelay, generation, aliveCount, cameraVars,
                   pointerVars, canvasSize, now, taps, historyVars, gestureVars,
                   pickVars, contextVars, touchVars, planarVars>>

\* Lines 640-650: handleWheel, with the updateZoom(false) it calls (line 591
\* clamps a second time and line 594 asks for a render).
handleWheel ==
  \E delta \in WheelDeltas :
    /\ zoomLevel' = clamp(clamp(zoomLevel - WheelZoom(delta), ZoomMin, ZoomMax),
                          ZoomMin, ZoomMax)
    /\ needsRender' = TRUE
    /\ UNCHANGED <<gridVars, simVars, projected, running, lastTick, lastFrame,
                   generationDelay, generation, aliveCount, cameraVars,
                   pointerVars, canvasSize, now, taps, historyVars, gestureVars,
                   pickVars, contextVars, touchVars, planarVars>>

\* The positions of the zoom slider, in percent.
ZoomInputValues == {70, 100, 125}

\* Lines 676-679: updateZoom(true), which reads the slider (line 587: the
\* percentage over 100, here times 10000).
zoomInput ==
  \E value \in ZoomInputValues :
    /\ zoomLevel' = clamp(value * 100, ZoomMin, ZoomMax)
    /\ needsRender' = TRUE
    /\ UNCHANGED <<gridVars, simVars, projected, running, lastTick, lastFrame,
                   generationDelay, generation, aliveCount, cameraVars,
                   pointerVars, canvasSize, now, taps, historyVars, gestureVars,
                   pickVars, contextVars, touchVars, planarVars>>

\* The positions of the speed slider, in milliseconds per generation.
SpeedInputValues == {50, 100, 200}

\* Lines 580-583, 671: updateSpeed.
speedInput ==
  \E value \in SpeedInputValues :
    /\ generationDelay' = value
    /\ UNCHANGED <<gridVars, simVars, projected, running, needsRender, lastTick,
                   lastFrame, generation, aliveCount, cameraVars, pointerVars,
                   now, taps, historyVars, viewVars, gestureVars, pickVars, contextVars, touchVars, planarVars>>

\* Fault model: a resize that also puts the camera back to a level view.
windowResizeLevellingCamera ==
  \E layout \in Layouts :
    /\ canvasSize' = ResizedCanvas(canvasSize, layout)
    /\ needsRender' = (needsRender \/ canvasSize' # canvasSize)
    /\ rotationX' = 0
    /\ UNCHANGED <<gridVars, simVars, projected, running, lastTick, lastFrame,
                   generationDelay, generation, aliveCount, rotationY,
                   pointerVars, zoomLevel, now, taps, historyVars, gestureVars,
                   pickVars, contextVars, touchVars, planarVars>>

\* Lines 725-738: the window's resize listener and the ResizeObserver both
\* call resizeCanvas.
windowResize ==
  \E layout \in Layouts :
    /\ canvasSize' = ResizedCanvas(canvasSize, layout)
    /\ needsRender' = (needsRender \/ canvasSize' # canvasSize)
    /\ UNCHANGED <<gridVars, simVars, projected, running, lastTick, lastFrame,
                   generationDelay, generation, aliveCount, cameraVars,
                   pointerVars, zoomLevel, now, taps, historyVars, gestureVars,
                   pickVars, contextVars, touchVars, planarVars>>

(***************************************************************************)
(* randomizeState (lines 243-260) and clearState (lines 262-273).          *)
(***************************************************************************)
RandomizeUpdates(draw) ==
  /\ generation' = 0
  /\ state' = RandomizedState(draw)
  /\ ages' = RandomizedAges(draw)
  /\ decays' = RandomizedDecays(draw)
  /\ aliveCount' = CountAlive(RandomizedState(draw))
  /\ needsRender' = TRUE
  /\ stepsSinceReset' = 0
  /\ aliveSteps' = Zeros(NumCells(draw))
  /\ seedAge' = RandomizedAges(draw)
  /\ fadeSteps' = Zeros(NumCells(draw))
  /\ genState' = RandomizedState(draw)
  /\ genDecay' = RandomizedDecays(draw)

randomizeState ==
  /\ UNCHANGED <<gridVars, buffer, ageBuffer, decayBuffer, arrays, projected, running,
                 lastTick, lastFrame, generationDelay, cameraVars, pointerVars,
                 now, taps, viewVars, gestureVars, pickVars, contextVars, touchVars, planarVars>>
  /\ \E draw \in RandomDraws(Length) : RandomizeUpdates(draw)

\* Fault model: a clear that leaves the afterglow of the cells on the sphere.
clearStateKeepingDecay ==
  /\ generation' = 0
  /\ aliveCount' = 0
  /\ state' = Zeros(Length)
  /\ buffer' = Zeros(Length)
  /\ ages' = Zeros(Length)
  /\ ageBuffer' = Zeros(Length)
  /\ decayBuffer' = Zeros(Length)
  /\ needsRender' = TRUE
  /\ stepsSinceReset' = 0
  /\ aliveSteps' = Zeros(Length)
  /\ seedAge' = Zeros(Length)
  /\ fadeSteps' = Zeros(Length)
  /\ genState' = Zeros(Length)
  /\ genDecay' = decays
  /\ UNCHANGED <<gridVars, decays, arrays, projected, running, lastTick, lastFrame,
                 generationDelay, cameraVars, pointerVars, now, taps, viewVars,
                 gestureVars, pickVars, contextVars, touchVars, planarVars>>

clearState ==
  /\ generation' = 0
  /\ aliveCount' = 0
  /\ state' = Zeros(Length)
  /\ buffer' = Zeros(Length)
  /\ ages' = Zeros(Length)
  /\ ageBuffer' = Zeros(Length)
  /\ decays' = Zeros(Length)
  /\ decayBuffer' = Zeros(Length)
  /\ needsRender' = TRUE
  /\ stepsSinceReset' = 0
  /\ aliveSteps' = Zeros(Length)
  /\ seedAge' = Zeros(Length)
  /\ fadeSteps' = Zeros(Length)
  /\ genState' = Zeros(Length)
  /\ genDecay' = Zeros(Length)
  /\ UNCHANGED <<gridVars, arrays, projected, running, lastTick, lastFrame, generationDelay,
                 cameraVars, pointerVars, now, taps, viewVars, gestureVars,
                 pickVars, contextVars, touchVars, planarVars>>

(***************************************************************************)
(* The resolution slider's input handler (lines 672-675): buildSphere      *)
(* (lines 148-200) followed by randomizeState.                             *)
(***************************************************************************)
\* Fault model: a rebuild that keeps the three double buffers of the previous
\* cell set.
resolutionInputKeepingBuffers ==
  \E fs \in Resolutions \ {faceSize} :
    \E draw \in RandomDraws(NumCells(Tessellation[fs].cells)) :
      /\ faceSize' = fs
      /\ running' = FALSE
      /\ RandomizeUpdates(draw)
      /\ arrays' = AllocatedArrays
      /\ UNCHANGED <<buffer, ageBuffer, decayBuffer, projected, lastTick, lastFrame,
                     generationDelay, cameraVars, pointerVars, now, taps, viewVars,
                     gestureVars, pickVars, contextVars, touchVars, planarVars>>

resolutionInput ==
  \E fs \in Resolutions \ {faceSize} :
    \E draw \in RandomDraws(NumCells(Tessellation[fs].cells)) :
      /\ faceSize' = fs
      /\ buffer' = Zeros(NumCells(Tessellation[fs].cells))
      /\ ageBuffer' = Zeros(NumCells(Tessellation[fs].cells))
      /\ decayBuffer' = Zeros(NumCells(Tessellation[fs].cells))
      /\ arrays' = AllocatedArrays
      /\ running' = FALSE
      /\ RandomizeUpdates(draw)
      /\ UNCHANGED <<projected, lastTick, lastFrame, generationDelay, cameraVars,
                     pointerVars, now, taps, viewVars, gestureVars, pickVars, contextVars, touchVars, planarVars>>

(***************************************************************************)
(* The buttons (lines 654-667).                                            *)
(***************************************************************************)
\* Fault model: a resume that leaves the auto-step clock where it was.
toggleButtonClickKeepingTick ==
  /\ running' = ~running
  /\ UNCHANGED <<gridVars, simVars, projected, needsRender, lastTick, lastFrame,
                 generationDelay, generation, aliveCount, cameraVars, pointerVars,
                 now, taps, historyVars, viewVars, gestureVars, pickVars, contextVars, touchVars, planarVars>>

\* Lines 654-661: the play/pause button.
toggleButtonClick ==
  /\ running' = ~running
  /\ lastTick' = IF ~running THEN now ELSE lastTick
  /\ UNCHANGED <<gridVars, simVars, projected, needsRender, lastFrame,
                 generationDelay, generation, aliveCount, cameraVars, pointerVars,
                 now, taps, historyVars, viewVars, gestureVars, pickVars, contextVars, touchVars, planarVars>>

\* Fault model: a manual step that also restarts the auto-advance timer.
StepButtonClickRestartingTimer(limit) ==
  /\ generation < limit
  /\ IF ~running
     THEN stepSimulation /\ lastTick' = now
     ELSE UNCHANGED <<simVars, generation, aliveCount, needsRender, historyVars, lastTick>>
  /\ UNCHANGED <<gridVars, projected, running, lastFrame, generationDelay,
                 cameraVars, pointerVars, now, taps, viewVars, gestureVars,
                 pickVars, contextVars, touchVars, planarVars>>

\* Fault model: a step button that is honoured while the simulation runs.
StepButtonClickAlways(limit) ==
  /\ generation < limit
  /\ stepSimulation
  /\ UNCHANGED <<gridVars, projected, running, lastTick, lastFrame, generationDelay,
                 cameraVars, pointerVars, now, taps, viewVars, gestureVars,
                 pickVars, contextVars, touchVars, planarVars>>

\* Lines 663-667: the step button; the model stops stepping at `limit`.
StepButtonClickUpTo(limit) ==
  /\ generation < limit
  /\ UNCHANGED <<gridVars, projected, running, lastTick, lastFrame, generationDelay,
                 cameraVars, pointerVars, now, taps, viewVars, gestureVars,
                 pickVars, contextVars, touchVars, planarVars>>
  /\ IF ~running
     THEN stepSimulation
     ELSE UNCHANGED <<simVars, generation, aliveCount, needsRender, historyVars>>

stepButtonClick == StepButtonClickUpTo(MaxGeneration)

(***************************************************************************)
(* animationFrame (lines 555-578).  The browser calls it once per frame;   *)
(* `now` is the timestamp of the latest frame, which is also what          *)
(* performance.now() returns to the handlers that run before the next one. *)
(***************************************************************************)
\* Fault model: the timer alone decides, whether the simulation runs or not.
StepDueWhilePaused(timestamp) == timestamp - lastTick >= generationDelay

\* Line 567.
StepDue(timestamp) == running /\ timestamp - lastTick >= generationDelay

\* Fault model: the same drift in every frame, whatever time has passed.
AutoRotationPerFrame(delta) == 12000

\* Line 564: delta * autoRotationSpeed (0.00012 rad/ms), in micro-radians.
AutoRotation(delta) == delta * 120

\* The time from one frame to the next, in milliseconds.
FrameIntervals == {100}

\* render (lines 331-447) as the frame callback calls it, after it has written
\* the yaw of this frame: without a context it returns at line 332.
render(yaw) ==
  IF ctx
  THEN projected' = Render(cells, rotationX, yaw) /\ projectedFaceSize' = faceSize
  ELSE UNCHANGED <<projected, projectedFaceSize>>

animationFrame ==
  \E interval \in FrameIntervals :
    LET timestamp == now + interval
        delta == IF lastFrame = 0 THEN 0 ELSE timestamp - lastFrame
        due == StepDue(timestamp)
        yaw == IF ~dragging THEN rotationY + AutoRotation(delta) ELSE rotationY
    IN  /\ timestamp <= MaxTime
        /\ due => generation < MaxGeneration
        /\ now' = timestamp
        /\ lastFrame' = timestamp
        /\ rotationY' = yaw
        /\ IF due
           THEN StepUpdates /\ lastTick' = timestamp
           ELSE UNCHANGED <<simVars, generation, aliveCount, historyVars, lastTick>>
        /\ IF needsRender \/ (due /\ Length # 0) \/ running
           THEN /\ render(yaw)
                /\ needsRender' = FALSE
           ELSE UNCHANGED <<projected, needsRender, projectedFaceSize>>
        /\ UNCHANGED <<gridVars, running, generationDelay, rotationX, pointerVars, taps,
                       viewVars, gestureVars, contextVars, touchVars, planarVars>>

(***************************************************************************)
(* The page at the resolution it starts with: every handler but the        *)
(* resolution slider's.                                                    *)
(***************************************************************************)
Next ==
  \/ animationFrame
  \/ toggleButtonClick
  \/ stepButtonClick
  \/ randomizeState
  \/ clearState
  \/ handlePointerDown
  \/ handlePointerUp
  \/ handlePointerLeave

Spec == Init /\ [][Next]_vars

(***************************************************************************)
(* The resolution slider moved between frames and taps.                    *)
(***************************************************************************)
NextResize ==
  \/ resolutionInput
  \/ animationFrame
  \/ handlePointerDown
  \/ handlePointerUp

SpecResize == Init /\ [][NextResize]_vars

(***************************************************************************)
(* A long run of generations from the seeded pattern, one step at a time.  *)
(***************************************************************************)
stepButtonClickLongRun == StepButtonClickUpTo(LongRunSteps)

NextLongRun == stepButtonClickLongRun

SpecLongRun == Init /\ [][NextLongRun]_vars

(***************************************************************************)
(* The view: the wheel, the zoom slider and the window's resize, between   *)
(* frames and during a press.                                              *)
(***************************************************************************)
NextView ==
  \/ animationFrame
  \/ handlePointerDown
  \/ handlePointerUp
  \/ handlePointerLeave
  \/ handleWheel
  \/ zoomInput
  \/ windowResize

SpecView == Init /\ [][NextView]_vars

(***************************************************************************)
(* The pointer gesture with its moves, between frames, and the wheel and   *)
(* the zoom slider used during it.                                         *)
(***************************************************************************)
NextGesture ==
  \/ animationFrame
  \/ handlePointerDown
  \/ handlePointerMove
  \/ handlePointerUp
  \/ handlePointerLeave
  \/ handleWheel
  \/ zoomInput

SpecGesture == Init /\ [][NextGesture]_vars

(***************************************************************************)
(* The timer: play and pause, the speed slider and the frames.             *)
(***************************************************************************)
NextTiming ==
  \/ animationFrame
  \/ toggleButtonClick
  \/ stepButtonClick
  \/ speedInput

SpecTiming == Init /\ [][NextTiming]_vars

(***************************************************************************)
(* Two pointers on the canvas (two fingers, or a finger and a mouse),      *)
(* between frames.                                                         *)
(***************************************************************************)
NextTouch ==
  \/ animationFrame
  \/ \E id \in PointerIds : handlePointerDownOf(id)
  \/ \E id \in PointerIds : handlePointerMoveOf(id)
  \/ \E id \in PointerIds : handlePointerUpOf(id)
  \/ \E id \in PointerIds : handlePointerLeaveOf(id)

SpecTouch == Init /\ [][NextTouch]_vars

(***************************************************************************)
(* The page without cells: every button, the frames and the taps.          *)
(***************************************************************************)
NextEmpty ==
  \/ animationFrame
  \/ toggleButtonClick
  \/ stepButtonClick
  \/ randomizeState
  \/ clearState
  \/ handlePointerDown
  \/ handlePointerUp

SpecEmpty == InitEmpty /\ [][NextEmpty]_vars

(***************************************************************************)
(* The planar grid demo (src/unnamed/part_000): a rectangular grid whose   *)
(* cells hold their age in a Uint8Array, stepped by a ticker.  Times are   *)
(* tenths of a millisecond, the speed is in hundredths.  The energy arrays *)
(* and the sprites are written from the ages and never read by the rule;   *)
(* they are left out, and so is the seed density, which only weighs the    *)
(* draws of randomize.                                                     *)
(***************************************************************************)
\* Lines 130-151: RULES.
RULES ==
  [classic  |-> [birth |-> {3},    survive |-> {2, 3}],
   coral    |-> [birth |-> {3},    survive |-> {4, 5, 6, 7, 8}],
   highlife |-> [birth |-> {3, 6}, survive |-> {2, 3}]]

\* The sizes of the renderer the model resizes the page to.
RendererSizes == {<<24, 24>>, <<36, 24>>}

\* Line 430: clamp(Math.round(area / 650), 1200, 9800).
TargetCells(area) == clamp((2 * area + 650) \div 1300, 1200, 9800)

\* Lines 431-433: Math.floor(extent / cellSize) with cellSize the square root
\* of area / targetCells kept within 12..28.
GridExtent(extent, area) ==
  IF area <= 144 * TargetCells(area) THEN extent \div 12
  ELSE IF area >= 784 * TargetCells(area) THEN extent \div 28
  ELSE ISqrtBetween((extent * extent * TargetCells(area)) \div area, 0, extent \div 12)

\* Lines 432-433: cols and rows.
GridConfig(size) ==
  [cols |-> GridExtent(size[1], size[1] * size[2]),
   rows |-> GridExtent(size[2], size[1] * size[2])]

\* Lines 500-508: the ages randomize can leave in a grid of n cells (0 for a
\* dead cell, 1..5 for a live one): all alive at age 5, ages by turns, and
\* every other cell alive at age 1.
PlanarDraws(n) ==
  {[i \in 0..(n - 1) |-> 5],
   [i \in 0..(n - 1) |-> i % 6],
   [i \in 0..(n - 1) |-> IF i % 2 = 0 THEN 1 ELSE 0]}

\* Fault model: a survivor's age stored without the limit of 200.
PlanarNewAgeUncapped(age, count, rule) ==
  IF age > 0
  THEN (IF count \in RULES[rule].survive THEN age + 1 ELSE 0)
  ELSE IF count \in RULES[rule].birth THEN 1 ELSE 0

\* Lines 580-587: newAge.
PlanarNewAge(age, count, rule) ==
  IF age > 0
  THEN (IF count \in RULES[rule].survive THEN Min(200, age + 1) ELSE 0)
  ELSE IF count \in RULES[rule].birth THEN 1 ELSE 0

\* Lines 556-578: the cells next to cell `index` within the grid that are alive.
PlanarNeighbors(cur, config, index) ==
  Cardinality({d \in {-1, 0, 1} \X {-1, 0, 1} :
                 /\ d # <<0, 0>>
                 /\ (index % config.cols) + d[1] \in 0..(config.cols - 1)
                 /\ (index \div config.cols) + d[2] \in 0..(config.rows - 1)
                 /\ cur[((index \div config.cols) + d[2]) * config.cols
                        + (index % config.cols) + d[1]] > 0})

\* Lines 546-608: the array `next` after the loops; line 599 stores newAge
\* into the Uint8Array.
PlanarStep(cur, config, rule) ==
  [index \in DOMAIN cur |->
     PlanarNewAge(cur[index], PlanarNeighbors(cur, config, index), rule) % 256]

\* k calls of stepSimulation one after the other: <<state, next>> afterwards.
RECURSIVE PlanarSteps(_, _, _, _, _)
PlanarSteps(cur, nxt, config, rule, k) ==
  IF k = 0 THEN <<cur, nxt>>
  ELSE PlanarSteps(PlanarStep(cur, config, rule), cur, config, rule, k - 1)

\* Lines 489-517: randomize, with the draw `draw` of Math.random.
PlanarRandomized(draw) ==
  /\ stateRef' = draw
  /\ nextStateRef' = Zeros(NumCells(draw))
  /\ generationRef' = 0

\* The demo once initialize has run (lines 392-721): rebuildGrid, which ends
\* with randomize, and the ticker added.
PlanarMounted ==
  \E draw \in PlanarDraws(GridConfig(<<24, 24>>).cols * GridConfig(<<24, 24>>).rows) :
    /\ stateRef = draw
    /\ nextStateRef = Zeros(NumCells(draw))
    /\ configRef = GridConfig(<<24, 24>>)
    /\ generationRef = 0
    /\ ruleRef = "classic"
    /\ runningRef = TRUE
    /\ speedRef = 58
    /\ accumulator = 0
    /\ ticks = 0
    /\ pausedAtLastTick = FALSE

\* The demo's page: Script.js is not part of it, its variables stay as its
\* lines 26-50 declare them.
InitPlanar == StartUp(EmptyResolutionValue, FALSE) /\ PlanarMounted

\* Lines 769-773; the model stops stepping at PlanarMaxGeneration.
handleStep ==
  /\ generationRef < PlanarMaxGeneration
  /\ stateRef' = PlanarStep(stateRef, configRef, ruleRef)
  /\ nextStateRef' = stateRef
  /\ generationRef' = generationRef + 1
  /\ UNCHANGED <<configRef, ruleRef, runningRef, speedRef, accumulator, ticks,
                 pausedAtLastTick, pageVars, touchVars>>

\* Lines 775-777.
handleRandomize ==
  /\ \E draw \in PlanarDraws(Cardinality(DOMAIN stateRef)) : PlanarRandomized(draw)
  /\ UNCHANGED <<configRef, ruleRef, runningRef, speedRef, accumulator, ticks,
                 pausedAtLastTick, pageVars, touchVars>>

\* Lines 779-781 and 519-528.
handleClear ==
  /\ stateRef' = Zeros(Cardinality(DOMAIN stateRef))
  /\ nextStateRef' = Zeros(Cardinality(DOMAIN nextStateRef))
  /\ generationRef' = 0
  /\ UNCHANGED <<configRef, ruleRef, runningRef, speedRef, accumulator, ticks,
                 pausedAtLastTick, pageVars, touchVars>>

\* Lines 795-797 and 372-378.
handleRuleChange ==
  /\ \E key \in DOMAIN RULES \ {ruleRef} : ruleRef' = key
  /\ UNCHANGED <<stateRef, nextStateRef, configRef, generationRef, runningRef,
                 speedRef, accumulator, ticks, pausedAtLastTick, pageVars, touchVars>>

\* Lines 635-639: the window's resize rebuilds the grid (lines 420-631), new
\* arrays of the new length and a new seed.
handleResize ==
  /\ \E size \in RendererSizes :
       /\ GridConfig(size) # configRef
       /\ configRef' = GridConfig(size)
       /\ \E draw \in PlanarDraws(GridConfig(size).cols * GridConfig(size).rows) :
            PlanarRandomized(draw)
  /\ UNCHANGED <<ruleRef, runningRef, speedRef, accumulator, ticks,
                 pausedAtLastTick, pageVars, touchVars>>

\* Lines 765-767 and 346-348.
handleToggle ==
  /\ runningRef' = ~runningRef
  /\ UNCHANGED <<stateRef, nextStateRef, configRef, generationRef, ruleRef,
                 speedRef, accumulator, ticks, pausedAtLastTick, pageVars, touchVars>>

\* The values the Tempo slider (lines 861-868) is moved to, in hundredths.
SpeedValues == {5, 58, 100}

\* Lines 783-785 and 350-352.
handleSpeedChange ==
  /\ \E value \in SpeedValues \ {speedRef} : speedRef' = value
  /\ UNCHANGED <<stateRef, nextStateRef, configRef, generationRef, ruleRef,
                 runningRef, accumulator, ticks, pausedAtLastTick, pageVars, touchVars>>

\* Line 707: 120 + (1 - speed) * 720 ms.
StepDuration(speed) == 1200 + (100 - speed) * 72

\* tickerInfo.deltaMS of a frame at 60 Hz and of the longest one the ticker
\* reports.
TickDeltas == {167, 1000}

\* Line 715.
PausedAccumulator(total, duration) == Min(total, duration)

\* Lines 701-719; the model stops after MaxTicks calls.
ticker ==
  \E deltaMS \in TickDeltas :
    LET total == accumulator + deltaMS
        duration == StepDuration(speedRef)
    IN  /\ ticks < MaxTicks
        /\ ticks' = ticks + 1
        /\ pausedAtLastTick' = ~runningRef
        /\ IF runningRef
           THEN /\ stateRef' = PlanarSteps(stateRef, nextStateRef, configRef,
                                           ruleRef, total \div duration)[1]
                /\ nextStateRef' = PlanarSteps(stateRef, nextStateRef, configRef,
                                               ruleRef, total \div duration)[2]
                /\ generationRef' = generationRef + total \div duration
                /\ accumulator' = total % duration
           ELSE /\ accumulator' = PausedAccumulator(total, duration)
                /\ UNCHANGED <<stateRef, nextStateRef, generationRef>>
        /\ UNCHANGED <<configRef, ruleRef, runningRef, speedRef, pageVars, touchVars>>

\* The grid under the buttons, the rule selector and the window's resize.
NextPlanar ==
  \/ handleStep
  \/ handleRandomize
  \/ handleClear
  \/ handleRuleChange
  \/ handleResize

SpecPlanar == InitPlanar /\ [][NextPlanar]_vars

\* The ticker between presses of play/pause and moves of the Tempo slider.
NextTicker ==
  \/ ticker
  \/ handleToggle
  \/ handleSpeedChange

SpecTicker == InitPlanar /\ [][NextTicker]_vars

(***************************************************************************)
(* Properties.                                                             *)
(***************************************************************************)
\* A transition in which stepSimulation ran to its end.
StepTaken == stepsSinceReset' = stepsSinceReset + 1

\* The number of entries of neighbors[i] that are alive in the current state.
LiveNeighbours(i) ==
  Cardinality({k \in 1..Len(neighbors[i]) : state[neighbors[i][k]] = 1})

\* C1: after one stepSimulation call cell i is alive iff it was alive with 2 or
\* 3 alive neighbours or dead with exactly 3, the neighbours counted in the
\* state before the step: no result depends on a cell updated in the same step.
C1_RuleReadsPreStepState ==
  [][StepTaken =>
       \A i \in Indices :
         (state'[i] = 1) <=> \/ state[i] = 1 /\ LiveNeighbours(i) \in {2, 3}
                             \/ state[i] = 0 /\ LiveNeighbours(i) = 3]_vars

\* Two steps from three alive cells: the first step lets three cells survive and
\* the other three be born, the second kills all six.
C1_BornSurvivedAndDied ==
  /\ stepsSinceReset = 2
  /\ \A i \in Indices : state[i] = 0 /\ fadeSteps[i] = 1

\* C2: in every reachable state a cell is alive if and only if its age is
\* positive.
C2_AliveIffAgePositive ==
  \A i \in Indices : (state[i] = 1) <=> (ages[i] > 0)

\* C3: the age of a cell that survives a step never becomes smaller than it
\* was (it grows by one up to a cap and then stays), a cell that is born gets
\* age 1 and a cell that is dead after the step gets age 0.
C3_AgeNeverWraps ==
  [][StepTaken =>
       \A i \in Indices :
         /\ state[i] = 1 /\ state'[i] = 1 => ages'[i] >= ages[i]
         /\ state[i] = 0 /\ state'[i] = 1 => ages'[i] = 1
         /\ state'[i] = 0 => ages'[i] = 0]_vars

\* C4: a step sets the decay of a cell to 0 if the cell is alive after it, to
\* 1 if the cell dies in it, and to 0.6 times the previous decay (rounded to
\* the nearest representable value) if the cell was dead and stays dead.
C4_DecayUpdate ==
  [][StepTaken =>
       \A i \in Indices :
         IF state'[i] = 1 THEN decays'[i] = 0
         ELSE IF state[i] = 1 THEN decays'[i] = DecayOne
         ELSE 10 * decays'[i] - 6 * decays[i] \in -5..5]_vars

\* A cell that died in one step and faded in the next: its decay is 0.6.
C4_DiedThenFaded ==
  \E i \in Indices : fadeSteps[i] = 2 /\ 10 * decays[i] = 6 * DecayOne

C6_DecayNeverLargerAcrossGeneration ==
  [][StepTaken =>
       \A i \in Indices :
         genState[i] = 0 /\ genDecay[i] < DecayOne /\ state'[i] = 0
           => decays'[i] <= genDecay[i]]_vars

\* C6 amended: one stepSimulation call never makes the decay of a cell larger
\* if the cell is dead before the call and after it.
C6_DecayNeverLargerAcrossStep ==
  [][StepTaken =>
       \A i \in Indices :
         state[i] = 0 /\ state'[i] = 0 => decays'[i] <= decays[i]]_vars

\* A cell dead before and after the latest step whose decay the step made
\* smaller (decayBuffer holds the decays the step read).
C6_DeadCellFaded ==
  /\ stepsSinceReset >= 1
  /\ \E i \in Indices :
       /\ state[i] = 0 /\ buffer[i] = 0 /\ fadeSteps[i] = 0
       /\ decayBuffer[i] > 0 /\ decays[i] < decayBuffer[i]

\* C7 as stated: an alive cell without alive neighbours is dead after a step
\* with decay 1, and every later step it stays dead through makes its decay
\* strictly smaller.
C7_DecayStrictlySmaller ==
  [][StepTaken =>
       \A i \in Indices :
         /\ state[i] = 1 /\ LiveNeighbours(i) = 0
              => state'[i] = 0 /\ decays'[i] = DecayOne
         /\ fadeSteps[i] >= 1 /\ state'[i] = 0 => decays'[i] < decays[i]]_vars

\* C7 amended: an alive cell without alive neighbours is dead after a step with
\* decay 1; every later step it stays dead through leaves its decay no larger,
\* and strictly smaller as long as the decay is above the smallest positive
\* value of the representation, where it stays.
C7_DecaySmallerDownToFloor ==
  [][StepTaken =>
       \A i \in Indices :
         /\ state[i] = 1 /\ LiveNeighbours(i) = 0
              => state'[i] = 0 /\ decays'[i] = DecayOne
         /\ fadeSteps[i] >= 1 /\ state'[i] = 0
              => /\ decays'[i] <= decays[i]
                 /\ decays[i] > 1 => decays'[i] < decays[i]
                 /\ decays[i] = 1 => decays'[i] = 1]_vars

\* The cell that was alone has died and faded down to the smallest positive
\* decay, and has been stepped once more there.
C7_FadedToFloor ==
  /\ aliveCount = 0
  /\ \E i \in Indices :
       fadeSteps[i] = stepsSinceReset /\ decays[i] = 1 /\ decayBuffer[i] = 1

\* C8: every stepSimulation call advances generation by exactly 1: generation
\* is the number of steps taken since randomizeState or clearState reset it.
C8_GenerationCountsSteps == generation = stepsSinceReset

\* Two steps after a reset, from a pattern that is still alive.
C8_TwoStepsCounted ==
  stepsSinceReset = 2 /\ generation = 2 /\ aliveCount > 0

\* C9: a click on the step button while the simulation is paused advances
\* generation by exactly 1 and leaves lastTick and running as they were.
C9_ManualStepLeavesTimer ==
  [][~running /\ stepButtonClick =>
       /\ generation' = generation + 1
       /\ lastTick' = lastTick
       /\ running' = running]_vars

\* Paused, with the timer set by a start at the frame of t = 100: two manual
\* steps have been taken and lastTick still is that start (no frame steps
\* before t = 200).
C9_SteppedWhilePaused ==
  ~running /\ lastTick = 100 /\ now = 100 /\ stepsSinceReset = 2

\* C10: a tap that hits a pick record of a cell of the current cell set flips
\* exactly that cell, to age 1 and decay 0 if it becomes alive and to age 0 and
\* decay 1 if it becomes dead; every other cell's liveness, age and decay and
\* the generation counter stay as they were.  The record `hit` is the
\* front-most one whose path contains the point.
C10_TapFlipsOneCell ==
  [][pointerActive /\ ~pointerActive' /\ ~dragging =>
       \A hit \in 1..Len(projected) :
         /\ projected[hit].index \in Indices
         /\ handlePointerUpAt({hit})
         => /\ state'[projected[hit].index] = 1 - state[projected[hit].index]
            /\ \A c \in Indices :
                 IF c = projected[hit].index
                 THEN /\ state'[c] = 1 => ages'[c] = 1 /\ decays'[c] = 0
                      /\ state'[c] = 0 => ages'[c] = 0 /\ decays'[c] = DecayOne
                 ELSE state'[c] = state[c] /\ ages'[c] = ages[c] /\ decays'[c] = decays[c]
            /\ generation' = generation]_vars

\* After the resolution was raised, a tap has made an alive cell dead: only
\* toggleCellAt leaves decay 1 on a cell that no step has killed.
C10_TappedCellDead ==
  /\ faceSize = 2
  /\ taps > 0
  /\ \E i \in Indices :
       state[i] = 0 /\ ages[i] = 0 /\ decays[i] = DecayOne /\ fadeSteps[i] = 0

\* C11: immediately after clearState, from any state, every cell is dead with
\* age 0 and decay 0, aliveCount is 0 and the generation counter is 0.
C11_ClearLeavesEverythingZero ==
  [][clearState =>
       /\ \A i \in Indices : state'[i] = 0 /\ ages'[i] = 0 /\ decays'[i] = 0
       /\ aliveCount' = 0
       /\ generation' = 0]_vars

\* A cleared sphere after the first frame, where a pattern had been seeded.
C11_ClearedAfterFrame ==
  /\ now > 0
  /\ needsRender
  /\ generation = 0
  /\ aliveCount = 0
  /\ \A i \in Indices : state[i] = 0 /\ ages[i] = 0 /\ decays[i] = 0
  /\ \A i \in Indices : buffer[i] = 0 /\ ageBuffer[i] = 0 /\ decayBuffer[i] = 0

\* What C12 says of the arrays randomizeState leaves, but for the upper end of
\* the decay of a dead cell.
SeededButForDecayLimit(cur, age, decay, i) ==
  /\ cur[i] = 1 => age[i] \in 1..4 /\ decay[i] = 0
  /\ cur[i] = 0 => age[i] = 0 /\ decay[i] >= 0

\* C12 as stated: immediately after randomizeState, whatever the draws, the
\* generation counter is 0, every alive cell has an age in 1..4 and decay 0,
\* and every dead cell has age 0 and a decay in [0, 0.2), 0.2 excluded.
C12_SeededDecayBelowLimit ==
  [][randomizeState =>
       /\ generation' = 0
       /\ \A i \in Indices :
            /\ SeededButForDecayLimit(state', ages', decays', i)
            /\ state'[i] = 0 => 5 * decays'[i] < DecayOne]_vars

\* C12 amended: immediately after randomizeState, whatever the draws, the
\* generation counter is 0, every alive cell has an age in 1..4 and decay 0,
\* and every dead cell has age 0 and a decay from 0 up to the stored value
\* nearest to 0.2, which a product just below 0.2 is rounded up to.
C12_SeededDecayUpToLimit ==
  [][randomizeState =>
       /\ generation' = 0
       /\ \A i \in Indices :
            /\ SeededButForDecayLimit(state', ages', decays', i)
            /\ state'[i] = 0 => 5 * decays'[i] <= DecayOne]_vars

\* A pattern seeded after the first frame in which a dead cell holds the
\* largest decay, next to alive cells of age 2.
C12_SeededAtLimit ==
  /\ now > 0
  /\ taps = 0
  /\ needsRender
  /\ generation = 0
  /\ stepsSinceReset = 0
  /\ \E i \in Indices : state[i] = 0 /\ ages[i] = 0 /\ 5 * decays[i] = DecayOne
  /\ \E i \in Indices : state[i] = 1 /\ ages[i] = 2 /\ decays[i] = 0

\* A transition that one of the three resets made: randomizeState, clearState
\* or the resolution slider's rebuild.
ResetTaken == randomizeState \/ clearState \/ resolutionInput

\* C13: the generation counter changes only in a step, which adds 1 to it, or
\* in a reset (randomizeState, clearState, a resolution rebuild), which sets it
\* to 0; taps, pointer events, zoom, resize and frames without a due step leave
\* it as it was, so it never decreases except by a reset.
C13_GenerationChangesByStepOrReset ==
  [][generation' # generation =>
       \/ StepTaken /\ generation' = generation + 1
       \/ ResetTaken /\ generation' = 0]_vars

\* The counter back at 0 by a new seed after a step had advanced it: only a
\* step writes a live cell into `buffer`, and randomizeState leaves `buffer`.
C13_ResetAfterStep ==
  /\ generation = 0
  /\ stepsSinceReset = 0
  /\ aliveCount > 0
  /\ \E i \in Indices : buffer[i] = 1

\* C19: a click on the step button while running is true changes neither a
\* cell's state, age or decay nor the generation counter; a click while running
\* is false performs exactly one step (the rule applied once to every cell, the
\* counter advanced by 1).
C19_StepHonouredOnlyWhilePaused ==
  [][stepButtonClick =>
       IF running
       THEN UNCHANGED <<state, ages, decays, generation, aliveCount>>
       ELSE /\ StepTaken
            /\ generation' = generation + 1
            /\ \A i \in Indices :
                 (state'[i] = 1) <=> \/ state[i] = 1 /\ LiveNeighbours(i) \in {2, 3}
                                     \/ state[i] = 0 /\ LiveNeighbours(i) = 3]_vars

\* Running since the frame of t = 100 after one manual step: the step button
\* can be clicked here, and the click is ignored.
C19_RunningAfterManualStep ==
  /\ running
  /\ lastTick = 100
  /\ now = 100
  /\ stepsSinceReset = 1
  /\ generation < MaxGeneration
  /\ ENABLED stepButtonClick

\* C14: for every cell i the neighbour list computeNeighbors leaves has at most
\* 8 entries, all of them indices of cells, none of them i itself and none of
\* them twice.
C14_NeighbourListsBounded ==
  \A i \in DOMAIN neighbors :
    /\ Len(neighbors[i]) <= 8
    /\ \A k \in 1..Len(neighbors[i]) :
         /\ neighbors[i][k] \in DOMAIN cells
         /\ neighbors[i][k] # i
         /\ \A m \in 1..Len(neighbors[i]) :
              neighbors[i][k] = neighbors[i][m] => k = m

\* 24 cells, where every cell has 23 candidates and the list is cut at 8.
C14_ListsCutAtEight ==
  /\ faceSize = 2
  /\ \A i \in DOMAIN neighbors : Len(neighbors[i]) = 8

\* C15: at resolution r buildSphere leaves exactly 6 * r * r cells, r * r of
\* them on each of the faces 0..5 (one per row and column of the face), each
\* with one centre and exactly 4 corners.
C15_CellsPerFace ==
  /\ NumCells(cells) = 6 * faceSize * faceSize
  /\ \A i \in DOMAIN cells :
       /\ cells[i].face \in 0..5
       /\ Len(cells[i].center.d) = 3
       /\ Len(cells[i].corners) = 4
       /\ \A c \in 1..4 : Len(cells[i].corners[c].d) = 3
  /\ \A face \in 0..5 :
       /\ Cardinality({i \in DOMAIN cells : cells[i].face = face})
            = faceSize * faceSize
       /\ \A row, col \in 0..(faceSize - 1) :
            Cardinality({i \in DOMAIN cells : /\ cells[i].face = face
                                               /\ cells[i].row = row
                                               /\ cells[i].col = col}) = 1

\* The sphere rebuilt at resolution 2: 24 cells, 4 on the last face.
C15_TwentyFourCells ==
  /\ faceSize = 2
  /\ NumCells(cells) = 24
  /\ Cardinality({i \in DOMAIN cells : cells[i].face = 5}) = 4

\* state, buffer, ages, ageBuffer, decays, decayBuffer and neighbors are
\* indexed as the cell list is.
ArraysMatchCells ==
  /\ DOMAIN state = DOMAIN cells
  /\ DOMAIN buffer = DOMAIN cells
  /\ DOMAIN ages = DOMAIN cells
  /\ DOMAIN ageBuffer = DOMAIN cells
  /\ DOMAIN decays = DOMAIN cells
  /\ DOMAIN decayBuffer = DOMAIN cells
  /\ DOMAIN neighbors = DOMAIN cells

\* C16: in every reachable state the six simulation arrays and the neighbour
\* lists have the length of the current cell list, and a resolution change
\* leaves nothing of the previous simulation: the cell set and the neighbour
\* graph are those of the new resolution (they are functions of faceSize),
\* the three buffers are all 0, the pattern is a fresh seed, the counter is 0
\* and the simulation is paused.
C16_RebuildReplacesEverything ==
  /\ []ArraysMatchCells
  /\ [][faceSize' # faceSize =>
          /\ NumCells(cells') = 6 * faceSize' * faceSize'
          /\ \A i \in DOMAIN cells' :
               buffer'[i] = 0 /\ ageBuffer'[i] = 0 /\ decayBuffer'[i] = 0
          /\ \E draw \in RandomDraws(NumCells(cells')) :
               /\ state' = RandomizedState(draw)
               /\ ages' = RandomizedAges(draw)
               /\ decays' = RandomizedDecays(draw)
          /\ generation' = 0
          /\ aliveCount' = CountAlive(state')
          /\ ~running']_vars

\* The sphere rebuilt at resolution 1 after a frame had drawn it at
\* resolution 2, seeded with alive cells.
C16_RebuiltSmaller ==
  /\ faceSize = 1
  /\ projectedFaceSize = 2
  /\ stepsSinceReset = 0
  /\ aliveCount > 0
  /\ ArraysMatchCells

\* C17: a tap handled at any moment after a resolution change, also before the
\* next frame, picks from pick records made of the current cell set, picks an
\* index of the current cell set, and changes aliveCount only when a cell of
\* the current set flips.  The record `hit` is the front-most one whose path
\* contains the point.
C17_TapsPickCurrentCells ==
  [][pointerActive /\ ~pointerActive' /\ ~dragging =>
       \A hit \in 1..Len(projected) :
         handlePointerUpAt({hit})
         => /\ projectedFaceSize = faceSize
            /\ projected[hit].index \in Indices
            /\ aliveCount' # aliveCount
                 => \E c \in Indices : state'[c] # state[c]]_vars

\* C18: after start-up the zoom factor lies in [0.7, 1.25] in every state,
\* whatever wheel events and zoom-slider inputs there were; a wheel event is
\* accepted in every state, pressed or dragging or neither, and always leaves
\* the old factor minus 0.0007 times its delta, clamped to the range, without
\* touching the gesture.
C18_ZoomStaysInRange ==
  /\ [](ZoomMin <= zoomLevel /\ zoomLevel <= ZoomMax)
  /\ [](\A delta \in WheelDeltas :
          ENABLED (/\ handleWheel
                   /\ zoomLevel' = clamp(zoomLevel - WheelZoom(delta),
                                         ZoomMin, ZoomMax)))
  /\ [][handleWheel =>
          /\ \E delta \in WheelDeltas :
               zoomLevel' = clamp(zoomLevel - WheelZoom(delta), ZoomMin, ZoomMax)
          /\ UNCHANGED <<pointerActive, dragging>>]_vars

\* Dragging, with a zoom factor of 0.9, which only the wheel leaves (from
\* 1.25), and a render asked for.
C18_WheelWhileDragging ==
  /\ pointerActive
  /\ dragging
  /\ needsRender
  /\ zoomLevel = 9000

\* C20: a frame that finds the simulation running with at least one generation
\* delay elapsed since the last generation takes exactly one step when one
\* delay has elapsed, several steps when several delays have elapsed, and never
\* more steps than whole delays have elapsed.
C20_FrameCatchesUp ==
  [][running /\ now' > now /\ now' - lastTick >= generationDelay =>
       /\ (now' - lastTick) \div generationDelay = 1
            => stepsSinceReset' = stepsSinceReset + 1
       /\ (now' - lastTick) \div generationDelay >= 2
            => stepsSinceReset' >= stepsSinceReset + 2
       /\ stepsSinceReset' - stepsSinceReset
            <= (now' - lastTick) \div generationDelay]_vars

\* A transition made by the frame callback: only it moves the page's clock.
FrameTaken == now' > now

\* C21: while running is false no frame advances the simulation: across a
\* frame, whatever its timestamp and however long ago the last generation was,
\* every cell's state, age and decay, the generation counter and aliveCount are
\* as they were.
C21_PausedFramesLeaveSimulation ==
  [][~running /\ FrameTaken =>
       UNCHANGED <<state, ages, decays, generation, aliveCount, stepsSinceReset>>]_vars

\* Paused at the frame of t = 200 with the timer last set at 0: a whole
\* generation delay has gone by, the pattern is alive and no generation has
\* been computed.
C21_PausedPastTheDelay ==
  /\ ~running
  /\ now = 200
  /\ lastFrame = 200
  /\ lastTick = 0
  /\ now - lastTick >= generationDelay
  /\ aliveCount > 0
  /\ generation = 0
  /\ stepsSinceReset = 0

\* C22: resizeCanvas changes only the canvas dimensions and the redraw flag:
\* the cell set (and with it the neighbours), every cell's state, age and
\* decay, the buffers, generation, aliveCount, running and both camera angles
\* are left as they were, and the flag is raised only when the size changed.
C22_ResizeTouchesOnlyCanvas ==
  [][windowResize =>
       /\ UNCHANGED <<faceSize, simVars, generation, aliveCount, running,
                      rotationX, rotationY>>
       /\ cells' = cells
       /\ neighbors' = neighbors
       /\ needsRender' = (needsRender \/ canvasSize' # canvasSize)]_vars

\* After a frame has drawn the sphere the canvas has been resized from its
\* start-up size to that of its parent: a redraw is asked for and the pattern
\* is still alive.
C22_ResizedAfterFrame ==
  /\ now > 0
  /\ Len(projected) > 0
  /\ canvasSize = <<300, 150>>
  /\ needsRender
  /\ aliveCount > 0
  /\ taps = 0
  /\ zoomLevel = clamp(ZoomInputValue * 100, ZoomMin, ZoomMax)

\* C23: with no cell, stepSimulation changes nothing, from the step button or
\* from a due frame (generation, aliveCount, the arrays and their buffers are
\* as they were); a tap that finds no pick record changes nothing; and a frame
\* without a drawing context leaves the pick list as it was.
C23_EmptyStateNoOps ==
  [][/\ Length = 0 /\ (stepButtonClick \/ FrameTaken)
          => UNCHANGED <<simVars, generation, aliveCount, stepsSinceReset>>
     /\ Len(projected) = 0 /\ pointerActive /\ ~pointerActive'
          => UNCHANGED <<simVars, generation, aliveCount, needsRender>>
     /\ ~ctx /\ FrameTaken
          => UNCHANGED <<projected, simVars, generation, aliveCount>>]_vars

\* No cell and no context: the simulation is running, the frame of t = 200 was
\* due, a tap has been released, and nothing has been counted or drawn.
C23_RanEmpty ==
  /\ Length = 0
  /\ ~ctx
  /\ running
  /\ now = 200
  /\ lastTick = 200
  /\ taps > 0
  /\ ~pointerActive
  /\ generation = 0
  /\ aliveCount = 0
  /\ Len(projected) = 0

\* The position in the draw records `data` of the record of cell `index`.
PositionOf(data, index) == CHOOSE k \in 1..Len(data) : data[k].index = index

\* The draw records are in non-decreasing depth (back to front), one per cell.
BackToFront(data, cellList) ==
  /\ Len(data) = NumCells(cellList)
  /\ \A i \in DOMAIN cellList :
       Cardinality({k \in 1..Len(data) : data[k].index = i}) = 1
  /\ \A k \in 1..(Len(data) - 1) : data[k].depth <= data[k + 1].depth

\* `picks` is a subsequence of the draw records, in their order.
SubsequenceOf(picks, data) ==
  /\ \A k \in 1..Len(picks) :
       \E m \in 1..Len(data) : data[m] = picks[k]
  /\ \A k \in 1..(Len(picks) - 1) :
       /\ PositionOf(data, picks[k].index) < PositionOf(data, picks[k + 1].index)
       /\ picks[k].depth <= picks[k + 1].depth

\* C24: in a frame that draws, whatever the camera orientation, the draw
\* records render sorts are in non-decreasing depth with one record per cell,
\* and the pick list it leaves is a subsequence of them in the same order.
\* The frame draws with the pitch as it is and the yaw it has just written.
C24_DrawnBackToFront ==
  [][FrameTaken /\ ctx /\ (needsRender \/ running) =>
       \A data \in {SortedData(cells, NumCells(cells) - 1, rotationX, rotationY')} :
         BackToFront(data, cells) /\ SubsequenceOf(projected', data)]_vars

\* A frame has drawn the sphere after a drag that pitched the camera to its
\* upper limit: the pick list holds at least two cells at different depths.
C24_DrawnAfterDrag ==
  /\ rotationX = MaxPitch
  /\ ~needsRender
  /\ projectedFaceSize = faceSize
  /\ Len(projected) >= 2
  /\ projected[1].depth < projected[Len(projected)].depth

\* C25: on a tap the stored polygons are tested from the top of the pick list
\* downward and the search stops at the first one that contains the point:
\* when the polygons at positions `lower` and `upper` (lower <= upper) contain
\* it, the cell of `upper`, the later in paint order, is the one toggled and
\* every other cell is left alone; when none contains it no cell changes.
C25_TopmostPolygonWins ==
  [][pointerActive /\ ~pointerActive' /\ ~dragging =>
       /\ handlePointerUpAt({}) => UNCHANGED <<state, ages, decays, aliveCount>>
       /\ \A lower \in 1..Len(projected) :
            \A upper \in lower..Len(projected) :
              /\ projected[upper].index \in Indices
              /\ handlePointerUpAt({lower, upper})
              => /\ state'[projected[upper].index]
                      = 1 - state[projected[upper].index]
                 /\ \A c \in Indices \ {projected[upper].index} :
                      state'[c] = state[c] /\ ages'[c] = ages[c]
                                           /\ decays'[c] = decays[c]]_vars

\* A tap has just brought to life the cell at the top of a pick list of several
\* polygons (age 1, which no seed of the model gives): the cells below it in
\* the list are as they were seeded.
C25_TopmostCellTapped ==
  /\ faceSize = 1
  /\ projectedFaceSize = 1
  /\ taps = 1
  /\ ~pointerActive
  /\ needsRender
  /\ stepsSinceReset = 0
  /\ Len(projected) >= 2
  /\ state[projected[Len(projected)].index] = 1
  /\ ages[projected[Len(projected)].index] = 1
  /\ \A k \in 1..(Len(projected) - 1) :
       ages[projected[k].index] # 1 /\ decays[projected[k].index] # DecayOne

\* A transition in which some cell went from dead to alive or back.
CellFlipped == \E c \in Indices : state'[c] # state[c]

\* C26: each pointer's gesture goes idle, pressed, then dragging or tapped, and
\* back to idle.  A cell is toggled only by a release that ends a gesture which
\* was pressed and never became a drag; the end of a gesture that had become a
\* drag toggles nothing, and so does a release without a press and a
\* pointerleave; after every release or leave the page is idle, neither
\* pressed nor dragging.
C26_GestureStateMachine ==
  [][~FrameTaken =>
       /\ CellFlipped
            => \E id \in PointerIds :
                 gestures[id] = "pressed" /\ gestures'[id] = "idle"
       /\ \A id \in PointerIds :
            gestures[id] = "dragging" /\ gestures'[id] = "idle" => ~CellFlipped
       /\ (\E id \in PointerIds : gestures[id] # "idle" /\ gestures'[id] = "idle")
            => ~pointerActive' /\ ~dragging']_vars

\* The pointer is farther than the threshold from the point it was pressed at.
MovedPastThreshold(point) ==
  FartherThanThreshold(point[1] - PressPoint[1], point[2] - PressPoint[2])

\* C27: while the pointer is pressed, the move that takes it farther than 3
\* pixels from the point of the press makes the gesture a drag, however small
\* each single move is, and the release that follows toggles no cell.
C27_CumulativeDisplacementDrags ==
  [][/\ (pointerActive /\ moves' = moves + 1 /\ MovedPastThreshold(lastPointer'))
          => dragging'
     /\ (pointerActive /\ ~pointerActive' /\ MovedPastThreshold(lastPointer))
          => ~CellFlipped]_vars

\* The camera was rotated by a move of a pointer whose gesture is a drag.
DragMoveTaken == moves' = moves + 1 /\ pointerActive /\ dragging'

\* C28: the pitch is within Math.PI / 2 - 0.05 of level at the start and after
\* every transition, whatever the moves of a drag are; the pitch changes only
\* by a move of a drag, and the yaw only by a move of a drag or by the
\* auto-rotation of a frame taken while no drag is under way.
C28_PitchWithinLimits ==
  /\ -MaxPitch <= rotationX /\ rotationX <= MaxPitch
  /\ [][/\ -MaxPitch <= rotationX' /\ rotationX' <= MaxPitch
        /\ rotationX' # rotationX => DragMoveTaken
        /\ rotationY' # rotationY => DragMoveTaken \/ (FrameTaken /\ ~dragging)]_vars

\* A drag has pitched the camera up to the limit and a second move of the same
\* drag has pitched it down to the opposite limit.
C28_PitchedToBothLimits ==
  /\ rotationX = -MaxPitch
  /\ moves = 2
  /\ dragging
  /\ lastPointer = <<102, 100>>

\* The milliseconds from the previous frame to the one being taken; the first
\* frame has no previous one and counts none (lines 556-558).
ElapsedMs == IF lastFrame = 0 THEN 0 ELSE now' - lastFrame

\* C29: a frame taken while no drag is under way, the pointer up or pressed
\* without a drag, advances the yaw by the elapsed milliseconds times
\* autoRotationSpeed (0.00012 rad/ms); a frame taken during a drag leaves the
\* yaw as it is.
C29_YawDriftsUnlessDragging ==
  [][FrameTaken =>
       rotationY' = IF dragging THEN rotationY ELSE rotationY + ElapsedMs * 120]_vars

\* The second frame was taken 100 ms after the first, during a drag straight
\* down that began after the first: the yaw is the one the page started with.
C29_FrameTakenDuringDrag ==
  /\ now = 200
  /\ lastFrame = 200
  /\ dragging
  /\ pointerActive
  /\ lastPointer = <<100, 700>>
  /\ moves = 1
  /\ rotationY = 200000

\* C30: a frame runs render when something has changed since the last draw,
\* the cells, the camera angles (the yaw drift of this very frame included),
\* the zoom or the canvas size, or when the simulation is running, and skips it
\* otherwise; render runs after the frame's auto-rotation and step, so that it
\* draws with the yaw and the cells the frame leaves.
C30_FrameRedrawsWhatChanged ==
  [][FrameTaken /\ ctx =>
       IF needsRender \/ running \/ rotationY' # rotationY
       THEN /\ ~needsRender'
            /\ projectedFaceSize' = faceSize
            /\ \A drawn \in {Render(cells, rotationX, rotationY')} :
                 projected' = drawn
       ELSE UNCHANGED <<projected, needsRender, projectedFaceSize>>]_vars

\* The number of candidates that a stable sort by distance puts before
\* candidate j in the list of cell i: the nearer ones, and the equally distant
\* ones of smaller index.
StableRank(centers, i, j) ==
  Cardinality({k \in DOMAIN centers \ {i, j} :
                 \/ DistanceLess(centers, i, k, j)
                 \/ ~DistanceLess(centers, i, j, k) /\ k < j})

\* All candidates of cell i sorted stably by distance, cut to the first 8.
StableFirstEight(centers, i) ==
  [p \in 1..Min(8, NumCells(centers) - 1) |->
     CHOOSE j \in DOMAIN centers \ {i} : StableRank(centers, i, j) = p - 1]

\* The lists of every tessellation as sorting gives them.
SortedNeighbors ==
  [fs \in Resolutions \cup {EmptyResolutionValue} |->
     LET centers == [i \in DOMAIN Tessellation[fs].cells |->
                       Tessellation[fs].cells[i].center]
     IN  [i \in DOMAIN centers |-> StableFirstEight(centers, i)]]

\* C31: for every cell the list that the insertions of computeNeighbors leave
\* is the list of the min(8, N - 1) nearest candidates in non-decreasing
\* distance, candidates of equal distance in ascending index: inserting and
\* truncating agrees with sorting all candidates stably and taking the first 8.
C31_InsertAgreesWithStableSort == neighbors = SortedNeighbors[faceSize]

\* The 24-cell sphere: the list of cell 0 was truncated to 8 out of 23
\* candidates and holds two equally distant cells, the smaller index first.
C31_TruncatedListWithTie ==
  /\ faceSize = 2
  /\ NumCells(cells) = 24
  /\ Len(neighbors[0]) = 8
  /\ \E p \in 1..7 :
       /\ ~DistanceLess([i \in DOMAIN cells |-> cells[i].center], 0,
                        neighbors[0][p], neighbors[0][p + 1])
       /\ neighbors[0][p] < neighbors[0][p + 1]

\* The number of alive cells other than cell i.
AliveOthers(i) == Cardinality({j \in Indices \ {i} : state[j] = 1})

\* C32: on a sphere of N <= 8 cells the list of every cell holds the N - 1
\* other cells, each once (at resolution 1 the five other faces, the opposite
\* one included), and a step counts over the list as long as it is: the count
\* of a cell is the number of the other cells that are alive, at most 5 at
\* resolution 1, and the rule is applied to that count.
C32_ShortListsCountedInFull ==
  /\ [](NumCells(cells) <= 8 =>
          \A i \in DOMAIN cells :
            /\ Len(neighbors[i]) = NumCells(cells) - 1
            /\ {neighbors[i][k] : k \in 1..Len(neighbors[i])} = DOMAIN cells \ {i})
  /\ [][StepTaken /\ NumCells(cells) <= 8 =>
          \A i \in Indices :
            /\ LiveNeighbours(i) = AliveOthers(i)
            /\ LiveNeighbours(i) <= 5
            /\ (state'[i] = 1) <=> \/ state[i] = 1 /\ AliveOthers(i) \in {2, 3}
                                   \/ state[i] = 0 /\ AliveOthers(i) = 3]_vars

\* A step has just run on the cube with five cells alive: the dead cell had
\* all its five neighbours alive and stayed dead with its decay faded (or still
\* 0), and the five, each with four alive neighbours, died in that step.
C32_StepWithFiveAliveNeighbours ==
  /\ faceSize = 1
  /\ stepsSinceReset = 1
  /\ taps >= 1
  /\ aliveCount = 0
  /\ Cardinality({i \in Indices : decays[i] = DecayOne /\ aliveSteps[i] = 0}) = 5
  /\ \E i \in Indices : decays[i] < DecayOne /\ state[i] = 0

\* C33: in every state each of state, ages and decays refers to another array
\* than its buffer.  A step exchanges the two references of each of the three
\* pairs, all three in the same step: the array that was current is the buffer
\* afterwards, element for element as it was before the step (nothing is
\* copied into it and no new array takes its place).
C33_DoubleBuffersSwapped ==
  /\ [](/\ arrays.state # arrays.buffer
        /\ arrays.ages # arrays.ageBuffer
        /\ arrays.decays # arrays.decayBuffer)
  /\ [][StepTaken =>
          /\ buffer' = state
          /\ ageBuffer' = ages
          /\ decayBuffer' = decays
          /\ Cardinality({arrays'[name] : name \in DOMAIN arrays'})
               = Cardinality({arrays[name] : name \in DOMAIN arrays})]_vars

\* A step has run on a pattern with live cells: the buffers hold the arrays
\* the step read, with a cell alive at a seeded age, and differ from the
\* arrays the step wrote.
C33_BuffersHoldPreviousGeneration ==
  /\ stepsSinceReset = 1
  /\ buffer # state
  /\ ageBuffer # ages
  /\ decayBuffer # decays
  /\ \E i \in Indices : buffer[i] = 1 /\ ageBuffer[i] >= 1 /\ decayBuffer[i] = 0

\* The cells the records of a list are about.
CellsOf(list) == {list[k].index : k \in 1..Len(list)}

\* The cells whose centre, rotated by the camera angles, has depth >= 0.
FrontFacing(rx, ry) == {i \in DOMAIN cells : RotatedZ(cells[i].center, rx, ry) >= 0}

\* C34: a frame that runs render leaves in the pick list exactly the cells
\* whose rotated centre has depth >= 0; the draw list of that frame holds every
\* cell once, the back-facing ones flagged non-interactive; and a tap changes
\* only a cell of the pick list, never one that render flagged back-facing.
C34_PickListIsFrontFacing ==
  [][/\ FrameTaken /\ ctx /\ (needsRender \/ running) =>
          /\ CellsOf(projected') = FrontFacing(rotationX, rotationY')
          /\ Len(projected') = Cardinality(CellsOf(projected'))
          /\ \A data \in {SortedData(cells, NumCells(cells) - 1, rotationX, rotationY')} :
               /\ Len(data) = NumCells(cells)
               /\ CellsOf(data) = DOMAIN cells
               /\ \A k \in 1..Len(data) :
                    data[k].interactive <=> data[k].index \in CellsOf(projected')
     /\ pointerActive /\ ~pointerActive' =>
          \A c \in Indices : state'[c] # state[c] => c \in CellsOf(projected)]_vars

\* The sphere was drawn with some cells facing away, which are not in the pick
\* list, and a tap has brought a cell of the pick list to life.
C34_TappedWithBackFacesHidden ==
  /\ projectedFaceSize = faceSize
  /\ Len(projected) >= 1
  /\ Len(projected) < NumCells(cells)
  /\ taps >= 1
  /\ ~pointerActive
  /\ \E k \in 1..Len(projected) :
       state[projected[k].index] = 1 /\ ages[projected[k].index] = 1
  /\ \A c \in Indices \ CellsOf(projected) : ages[c] # 1

\* C35: in every state that buildSphere, randomizeState, clearState,
\* stepSimulation, taps and frames can reach in any order, the aliveCount of
\* the HUD is the number of cells whose state is alive.
C35_AliveCountIsNumberAlive == aliveCount = CountAlive(state)

\* Every cell is dead with age 0 and decay 0, as clearState leaves them.
AllDead == \A i \in Indices : state[i] = 0 /\ ages[i] = 0 /\ decays[i] = 0

\* C36: the all-dead configuration that clearState leaves is a fixed point of
\* the rule: a step taken from it leaves every cell dead with age 0 and decay 0
\* and aliveCount 0, and still advances the generation counter by 1.
C36_AllDeadIsFixedPoint ==
  [][StepTaken /\ AllDead =>
       /\ AllDead'
       /\ aliveCount' = 0
       /\ generation' = generation + 1]_vars

\* Two steps have run on the all-dead sphere since the counter was last at 0:
\* the counter is at 2 and nothing is alive or fading.
C36_TwoStepsOnDeadSphere ==
  /\ faceSize = 1
  /\ stepsSinceReset = 2
  /\ generation = 2
  /\ AllDead
  /\ aliveCount = 0
  /\ buffer = Zeros(Length)
  /\ decayBuffer = Zeros(Length)

\* C37: a switch from paused to running sets lastTick to the current time; from
\* then on only an automatic step moves lastTick, and a frame takes one only
\* when its timestamp is a full generationDelay past lastTick, so that the
\* first automatic step after a resume comes no earlier than one delay after
\* it, however long the pause was.  A switch to paused leaves lastTick, the
\* cells and the counters as they are.
C37_ResumeRestartsStepClock ==
  [][/\ ~running /\ running' => lastTick' = now /\ UNCHANGED <<simVars, generation>>
     /\ running /\ ~running' =>
          UNCHANGED <<lastTick, simVars, generation, aliveCount, stepsSinceReset>>
     /\ FrameTaken /\ StepTaken =>
          running /\ now' - lastTick >= generationDelay /\ lastTick' = now'
     /\ lastTick' # lastTick => (~running /\ running') \/ (FrameTaken /\ StepTaken)]_vars

\* The simulation was resumed at 100 ms, 100 ms after the clock's previous
\* value, with a delay of 200 ms: the frame at 200 ms, a full delay after the
\* old lastTick but only half a delay after the resume, has taken no step.
C37_NoStepRightAfterResume ==
  /\ running
  /\ now = 200
  /\ lastFrame = 200
  /\ lastTick = 100
  /\ generationDelay = 200
  /\ generation = 0
  /\ stepsSinceReset = 0

\* A call of the ticker.
TickTaken == ticks' = ticks + 1

\* The tick the ticker's code describes for a frame of deltaMS: while running
\* one step per whole stepDuration in the accumulator and a rest strictly
\* below stepDuration; while paused no step and the accumulator capped.
TickAccumulates(deltaMS) ==
  IF runningRef
  THEN /\ generationRef' - generationRef
            = (accumulator + deltaMS) \div StepDuration(speedRef)
       /\ accumulator' = (accumulator + deltaMS) % StepDuration(speedRef)
       /\ accumulator' < StepDuration(speedRef)
  ELSE /\ generationRef' = generationRef
       /\ stateRef' = stateRef
       /\ accumulator' = Min(accumulator + deltaMS, StepDuration(speedRef))
       /\ accumulator' <= StepDuration(speedRef)

\* C38: each tick of the planar demo adds deltaMS to the accumulator; while
\* running it performs one step per whole stepDuration the accumulator holds
\* and leaves the accumulator strictly below stepDuration; while paused it
\* performs no step and caps the accumulator at stepDuration, so that on the
\* first running tick after a pause the time accumulated during the pause
\* is worth at most one step.
C38_PauseWorthAtMostOneStep ==
  [][TickTaken =>
       /\ \E deltaMS \in TickDeltas : TickAccumulates(deltaMS)
       /\ runningRef /\ pausedAtLastTick
            => accumulator \div StepDuration(speedRef) <= 1]_vars

\* What holds of C38: every tick accumulates, steps and caps as described.
TickerAccumulates ==
  [][TickTaken => \E deltaMS \in TickDeltas : TickAccumulates(deltaMS)]_vars

\* With the step duration the paused ticks capped it at, the first running
\* tick after a pause performs at most one step.
ResumeAtSameSpeedStepsOnce ==
  [][TickTaken /\ runningRef /\ pausedAtLastTick
       /\ accumulator <= StepDuration(speedRef)
       => generationRef' - generationRef <= 1]_vars

\* C39: in the planar demo every stored age, in the grid and in its buffer,
\* stays within 0..200 in every reachable state (randomize stores 0 or 1..5,
\* a birth stores 1, a survivor min(200, age + 1), a rebuild zeros), so the
\* 8-bit store never wraps an age and a live cell's stored value is > 0.
C39_AgesWithinLimit ==
  /\ Cardinality(DOMAIN stateRef) = configRef.cols * configRef.rows
  /\ DOMAIN nextStateRef = DOMAIN stateRef
  /\ \A index \in DOMAIN stateRef :
       /\ stateRef[index] \in 0..200
       /\ nextStateRef[index] \in 0..200

\* A survivor at the limit survived once more: its age is 200 in the grid and
\* in the previous generation kept by the buffer.
C39_SurvivorHeldAtLimit ==
  /\ generationRef > 0
  /\ \E index \in DOMAIN stateRef :
       /\ stateRef[index] = 200
       /\ nextStateRef[index] = 200

\* A step stores each cell's new age as the rule computes it, unchanged by
\* the 8-bit store.
StepStoresAgesUnwrapped ==
  [][generationRef' = generationRef + 1 =>
       \A index \in DOMAIN stateRef :
         stateRef'[index]
           = PlanarNewAge(stateRef[index],
                          PlanarNeighbors(stateRef, configRef, index), ruleRef)]_vars

====
